---------------------------- MODULE Spec2Model ----------------------------
(***************************************************************************)
(* The astronomical saju engine of letyouweb/saju                          *)
(* (backend/app/services/engine_v2.py): ScientificSajuEngine.calculate     *)
(* turns a civil date and time, and the sun's ecliptic longitude at that   *)
(* instant, into the year, month, day and hour pillars of the sexagenary   *)
(* calendar.                                                               *)
(*                                                                         *)
(* Representation.                                                         *)
(*  - A longitude is an integer number of 1/LonPerDeg degrees, so that     *)
(*    1.5 degrees and every multiple of 15 degrees are compared exactly.   *)
(*  - Python's None is the empty sequence <<>> and a present value x is    *)
(*    <<x>>.                                                               *)
(*  - The Hangul stem and branch names are written in Revised              *)
(*    Romanization: GAN = gap eul byeong jeong mu gi gyeong sin im gye,    *)
(*    JI = ja chuk in myo jin sa o mi sin yu sul hae.  A ganji string      *)
(*    (GAN[g] + JI[j]) is the pair <<GAN[g], JI[j]>>.                      *)
(*  - Python lists are 0-based: table[i] of the source is Table[i + 1].    *)
(***************************************************************************)
EXTENDS Integers, Sequences, FiniteSets, TLC

VARIABLES
    ANCHOR_DATE,   \* engine field: the calibration date (year, month, day)
    ANCHOR_IDX,    \* engine field: the 60-cycle index of ANCHOR_DATE
    call,          \* call[c]: the arguments of caller c's calculate() call, or None
    sun,           \* sun[c]: what the solar position provider answers for c's instant
    pc,            \* pc[c]: idle | called | queried | returned | raised
    solar_lon,     \* solar_lon[c]: the local solar_lon of c's call once queried
    queried,       \* queried[c]: the instants c's call asked the provider about
    ret,           \* ret[c]: the record c's call returned, or None
    exc,           \* exc[c]: the exception that left c's call, or None
    saju_ret,      \* saju_ret[c]: the CalculationResult SajuEngine.calculate returned, or None
    \* recover_interrupted_jobs (job_recovery.py)
    reports,       \* the rows of the store's reports table, by report id
    rec_pc,        \* where the recovery call is
    rec_todo,      \* the rows of the list being walked that are still to come
    started,       \* the report ids a regeneration task was created for, in order
    fail_calls,    \* the fail_report calls made: report id and whether it returned
    recovered_count,  \* the local counter of the call
    rec_ret,       \* the value the call returned, or None
    \* SupabaseService (supabase_service.py)
    _client,       \* the lazily created client, or None
    job,           \* the row of the one job followed, or None
    job_ops,       \* the number of operations made on it
    \* PremiumReportBuilder (report_builder.py)
    _semaphore,    \* the builder's field: the semaphore now installed, or None
    sem,           \* sem[b]: the semaphore object call b created: holder and waiters
    bcall,         \* bcall[b]: the arguments of call b
    bpc,           \* bpc[b]: where call b is
    alloc,         \* alloc[b]: the rule cards call b allocated to each section
    task           \* task[b][sid]: the _generate_section task of call b for section sid

engineVars ==
    <<ANCHOR_DATE, ANCHOR_IDX, call, sun, pc, solar_lon, queried, ret, exc, saju_ret>>
recoveryVars ==
    <<reports, rec_pc, rec_todo, started, fail_calls, recovered_count, rec_ret>>
jobVars == <<_client, job, job_ops>>
builderVars == <<_semaphore, sem, bcall, bpc, alloc, task>>

vars == <<engineVars, recoveryVars, jobVars, builderVars>>

None == <<>>
Some(x) == <<x>>

\* The requests whose calls are followed.
Callers == {"a", "b", "c"}

-----------------------------------------------------------------------------
(* Bounds of the model *)

\* Longitude grid: units per degree.
LonPerDeg == 4
\* Civil years the calls are drawn from.
MinYear == 1996
MaxYear == 2008

-----------------------------------------------------------------------------
(* Tables: engine_v2.py lines 29-88 *)

GAN == <<"gap", "eul", "byeong", "jeong", "mu", "gi", "gyeong", "sin", "im", "gye">>
JI == <<"ja", "chuk", "in", "myo", "jin", "sa", "o", "mi", "sin", "yu", "sul", "hae">>

GAN_HANJA == <<"jia", "yi", "bing", "ding", "wu", "ji", "geng", "xin", "ren", "gui">>
JI_HANJA == <<"zi", "chou", "yin", "mao", "chen", "si", "wu", "wei", "shen", "you", "xu", "hai">>

\* Elements: mok (wood), hwa (fire), to (earth), geum (metal), su (water).
GAN_TO_ELEMENT ==
    [g \in {GAN[i] : i \in 1..10} |->
        CASE g \in {"gap", "eul"} -> "mok"
          [] g \in {"byeong", "jeong"} -> "hwa"
          [] g \in {"mu", "gi"} -> "to"
          [] g \in {"gyeong", "sin"} -> "geum"
          [] g \in {"im", "gye"} -> "su"]

JI_TO_ELEMENT ==
    [j \in {JI[i] : i \in 1..12} |->
        CASE j \in {"ja", "hae"} -> "su"
          [] j \in {"chuk", "jin", "mi", "sul"} -> "to"
          [] j \in {"in", "myo"} -> "mok"
          [] j \in {"sa", "o"} -> "hwa"
          [] j \in {"sin", "yu"} -> "geum"]

\* The descriptive text of each day master, by its leading image.
DAY_MASTER_DESC ==
    [g \in {GAN[i] : i \in 1..10} |->
        CASE g = "gap" -> "big tree"
          [] g = "eul" -> "small tree"
          [] g = "byeong" -> "sun"
          [] g = "jeong" -> "candle"
          [] g = "mu" -> "big mountain"
          [] g = "gi" -> "field"
          [] g = "gyeong" -> "rock"
          [] g = "sin" -> "jewel"
          [] g = "im" -> "big water"
          [] g = "gye" -> "dew"]

\* Term names by month-branch index: the two solar terms that bound the month.
SOLAR_TERM_NAMES ==
    << "dongji~sohan (ja)", "sohan~ipchun (chuk)", "ipchun~gyeongchip (in)",
       "gyeongchip~cheongmyeong (myo)", "cheongmyeong~ipha (jin)",
       "ipha~mangjong (sa)", "mangjong~soseo (o)", "soseo~ipchu (mi)",
       "ipchu~baengno (sin)", "baengno~hallo (yu)", "hallo~ipdong (sul)",
       "ipdong~dongji (hae)" >>

\* start and end are <<hour, minute>> of the "HH:MM" strings.
HOUR_OPTIONS ==
    << [index |-> 0,  ji |-> "ja",   start |-> <<23, 0>>, end |-> <<0, 59>>],
       [index |-> 1,  ji |-> "chuk", start |-> <<1, 0>>,  end |-> <<2, 59>>],
       [index |-> 2,  ji |-> "in",   start |-> <<3, 0>>,  end |-> <<4, 59>>],
       [index |-> 3,  ji |-> "myo",  start |-> <<5, 0>>,  end |-> <<6, 59>>],
       [index |-> 4,  ji |-> "jin",  start |-> <<7, 0>>,  end |-> <<8, 59>>],
       [index |-> 5,  ji |-> "sa",   start |-> <<9, 0>>,  end |-> <<10, 59>>],
       [index |-> 6,  ji |-> "o",    start |-> <<11, 0>>, end |-> <<12, 59>>],
       [index |-> 7,  ji |-> "mi",   start |-> <<13, 0>>, end |-> <<14, 59>>],
       [index |-> 8,  ji |-> "sin",  start |-> <<15, 0>>, end |-> <<16, 59>>],
       [index |-> 9,  ji |-> "yu",   start |-> <<17, 0>>, end |-> <<18, 59>>],
       [index |-> 10, ji |-> "sul",  start |-> <<19, 0>>, end |-> <<20, 59>>],
       [index |-> 11, ji |-> "hae",  start |-> <<21, 0>>, end |-> <<22, 59>> ] >>

-----------------------------------------------------------------------------
(* datetime(year, month, day, hour, minute) and date differences, as the   *)
(* standard library computes them for lines 123 and 230-231.               *)

\* A faulty variant of IsLeap: the century rule is left out.
IsLeapEveryFourth(y) == y % 4 = 0

IsLeap(y) == y % 4 = 0 /\ (y % 100 # 0 \/ y % 400 = 0)

DaysInMonth(y, m) ==
    IF m = 2 THEN (IF IsLeap(y) THEN 29 ELSE 28)
    ELSE IF m \in {4, 6, 9, 11} THEN 30 ELSE 31

\* datetime(...) raises ValueError unless every field is in range.
ValidDate(y, m, d) ==
    /\ y \in 1..9999
    /\ m \in 1..12
    /\ d \in 1..DaysInMonth(y, m)

\* A faulty variant of ValidTime: the upper ends are one too large.
ValidTimeInclusive(h, mi) == h \in 0..24 /\ mi \in 0..60

ValidTime(h, mi) == h \in 0..23 /\ mi \in 0..59

DaysBeforeYear(y) ==
    LET p == y - 1 IN p * 365 + (p \div 4) - (p \div 100) + (p \div 400)

RECURSIVE DaysBeforeMonth(_, _)
DaysBeforeMonth(y, m) ==
    IF m = 1 THEN 0 ELSE DaysBeforeMonth(y, m - 1) + DaysInMonth(y, m - 1)

\* The proleptic Gregorian ordinal of a date (0001-01-01 is day 1).
ToOrdinal(date) ==
    DaysBeforeYear(date[1]) + DaysBeforeMonth(date[1], date[2]) + date[3]

-----------------------------------------------------------------------------
(* Longitudes *)

\* One full circle, and n degrees, in grid units.
Deg(n) == n * LonPerDeg
\* The longitudes the provider returns: math.degrees of an angle in [0, 2 pi).
Lons == 0..(Deg(360) - 1)

\* The provider's answer for an instant: a longitude, a non-finite value, or
\* an exception raised inside ephem.
SunLon(l) == [kind |-> "lon", deg |-> l]
SunNaN == [kind |-> "nan", deg |-> 0]
SunRaise == [kind |-> "raise", deg |-> 0]

\* round(solar_lon, 2), in hundredths of a degree: to the nearest hundredth,
\* an exact tie going to the even one.
Round2(l) ==
    LET n == l * 100
        q == n \div LonPerDeg
        r == n % LonPerDeg
    IN  IF 2 * r < LonPerDeg THEN q
        ELSE IF 2 * r > LonPerDeg THEN q + 1
        ELSE IF q % 2 = 0 THEN q ELSE q + 1

-----------------------------------------------------------------------------
(* ScientificSajuEngine *)

\* datetime(year, month, day, hour, minute) is built first and raises
\* ValueError on an out-of-range field; then the provider is asked, and may
\* raise an error of its own.  The value is <<"raise", exception type>> or
\* <<"ok", answer>>.
_get_solar_longitude(year, month, day, hour, minute, answer) ==
    IF ~(ValidDate(year, month, day) /\ ValidTime(hour, minute))
    THEN <<"raise", "ValueError">>
    ELSE IF answer.kind = "raise" THEN <<"raise", "ProviderError">>
    ELSE <<"ok", answer>>

\* A faulty variant of TermIdx: the 45-degree shift that puts 315 degrees at 0 is left out.
TermIdxNoShift(deg) == (deg % Deg(360)) \div Deg(30)

\* term_idx of _get_solar_term_index: int(((deg + 45) % 360) / 30).
TermIdx(deg) == ((deg + Deg(45)) % Deg(360)) \div Deg(30)

\* month_ji_idx of _get_solar_term_index.
MonthJiIdx(deg) == (TermIdx(deg) + 2) % 12

\* Returns (month_ji_idx, term_name).
_get_solar_term_index(deg) ==
    <<MonthJiIdx(deg), SOLAR_TERM_NAMES[MonthJiIdx(deg) + 1]>>

\* A faulty variant of BoundaryDiff: the plain distance, with no wrap at 360 degrees.
BoundaryDiffNoWrap(deg, boundary) ==
    IF deg - Deg(boundary) < 0 THEN Deg(boundary) - deg ELSE deg - Deg(boundary)

\* diff of _is_near_boundary (line 168), in grid units.
BoundaryDiff(deg, boundary) ==
    LET d == ((deg - Deg(boundary) + Deg(180)) % Deg(360)) - Deg(180)
    IN  IF d < 0 THEN -d ELSE d

\* diff <= 1.5
WithinWindow(diff) == 2 * diff <= 3 * LonPerDeg

\* A faulty variant of BoundaryReason: the spring start is not told apart.
BoundaryReasonNoSpring(boundary) == "near_term_change"

\* The reason returned for a matched boundary (lines 170-172).
BoundaryReason(boundary) ==
    IF boundary = 315 THEN "near_ipchun" ELSE "near_term_change"

\* The loop of _is_near_boundary from `boundary` on, over range(0, 360, 15):
\* the first boundary within the window decides.
RECURSIVE NearBoundaryFrom(_, _)
NearBoundaryFrom(deg, boundary) ==
    IF boundary >= 360 THEN <<FALSE, None>>
    ELSE IF WithinWindow(BoundaryDiff(deg, boundary))
         THEN <<TRUE, Some(BoundaryReason(boundary))>>
         ELSE NearBoundaryFrom(deg, boundary + 15)

\* Returns (is_boundary, boundary_reason).
_is_near_boundary(deg) == NearBoundaryFrom(deg, 0)

\* A faulty variant of _make_pillar: the names are read one place early in
\* the tables (index -1 being the last entry).
_make_pillarOneEarly(gan_idx, ji_idx) ==
    LET g == ((gan_idx - 1) % 10) + 1
        j == ((ji_idx - 1) % 12) + 1
    IN  [ ganji |-> <<GAN[g], JI[j]>>,
          gan |-> GAN[g],
          ji |-> JI[j],
          gan_hanja |-> GAN_HANJA[g],
          ji_hanja |-> JI_HANJA[j],
          gan_element |-> GAN_TO_ELEMENT[GAN[g]],
          ji_element |-> JI_TO_ELEMENT[JI[j]],
          gan_index |-> gan_idx,
          ji_index |-> ji_idx ]

\* The pillar dictionary of a stem index and a branch index.
_make_pillar(gan_idx, ji_idx) ==
    [ ganji |-> <<GAN[gan_idx + 1], JI[ji_idx + 1]>>,
      gan |-> GAN[gan_idx + 1],
      ji |-> JI[ji_idx + 1],
      gan_hanja |-> GAN_HANJA[gan_idx + 1],
      ji_hanja |-> JI_HANJA[ji_idx + 1],
      gan_element |-> GAN_TO_ELEMENT[GAN[gan_idx + 1]],
      ji_element |-> JI_TO_ELEMENT[JI[ji_idx + 1]],
      gan_index |-> gan_idx,
      ji_index |-> ji_idx ]

\* A faulty variant of CalYear: only January is taken to precede the spring start.
CalYearJanuaryOnly(year, month, solar_idx) ==
    IF month <= 1 /\ solar_idx <= 1 THEN year - 1 ELSE year

\* cal_year (lines 209-214): the sexagenary year of the year pillar.
CalYear(year, month, solar_idx) ==
    IF month <= 2 /\ solar_idx <= 1 THEN year - 1 ELSE year

\* year pillar indices (lines 216-217).
YearGanIdx(cal_year) == (cal_year - 4) % 10
YearJiIdx(cal_year) == (cal_year - 4) % 12

\* A faulty variant of MonthGanIdx: the first month's stem is taken one too low.
MonthGanIdxOddStart(year_gan_idx, month_ji_idx) ==
    LET start_gan_idx == (year_gan_idx % 5) * 2 + 1
        gap == IF month_ji_idx - 2 < 0 THEN month_ji_idx - 2 + 12
               ELSE month_ji_idx - 2
    IN  (start_gan_idx + gap) % 10

\* A faulty variant of MonthGanIdx: a negative gap is not wrapped by 12.
MonthGanIdxNoWrap(year_gan_idx, month_ji_idx) ==
    LET start_gan_idx == (year_gan_idx % 5) * 2 + 2
        gap == month_ji_idx - 2
    IN  (start_gan_idx + gap) % 10

\* month stem (lines 223-227).
MonthGanIdx(year_gan_idx, month_ji_idx) ==
    LET start_gan_idx == (year_gan_idx % 5) * 2 + 2
        gap == IF month_ji_idx - 2 < 0 THEN month_ji_idx - 2 + 12
               ELSE month_ji_idx - 2
    IN  (start_gan_idx + gap) % 10

\* days_diff (lines 230-231): (datetime(year, month, day) - ANCHOR_DATE).days
DaysDiff(year, month, day, anchor_date) ==
    ToOrdinal(<<year, month, day>>) - ToOrdinal(anchor_date)

\* A faulty variant of CurrDayIdx: the engine counts the calls it has served
\* into the index.
CurrDayIdxCounting(days_diff, anchor_idx) ==
    (anchor_idx + days_diff + Cardinality({c \in Callers : pc[c] = "returned"})) % 60

\* A faulty variant of CurrDayIdx: the anchor index is read as a 1-based position.
CurrDayIdxOneBased(days_diff, anchor_idx) == (anchor_idx - 1 + days_diff) % 60

\* curr_day_idx (line 232); Python's % takes the sign of the divisor.
CurrDayIdx(days_diff, anchor_idx) == (anchor_idx + days_diff) % 60

\* A faulty variant of DayIdx: the day is taken to change at 23:00.
DayIdxLateHour(a, anchor_date, anchor_idx) ==
    CurrDayIdx(DaysDiff(a.year, a.month, a.day, anchor_date)
                   + (IF a.hour = Some(23) THEN 1 ELSE 0),
               anchor_idx)

\* The day pillar's cycle index for the call's arguments (lines 230-232):
\* only year, month and day are read.
DayIdx(a, anchor_date, anchor_idx) ==
    CurrDayIdx(DaysDiff(a.year, a.month, a.day, anchor_date), anchor_idx)

\* A faulty variant of AdjustedMinute: the correction is added, not subtracted.
AdjustedMinutePlus30(hour, minute, use_solar_time) ==
    LET t == hour * 60 + minute IN
    IF use_solar_time
    THEN (IF t + 30 >= 1440 THEN t + 30 - 1440 ELSE t + 30)
    ELSE t

\* A faulty variant of AdjustedMinute: the flag is not read and no correction is made.
AdjustedMinuteNoCorrection(hour, minute, use_solar_time) == hour * 60 + minute

\* adjusted_minute (lines 244-248).
AdjustedMinute(hour, minute, use_solar_time) ==
    LET t == hour * 60 + minute IN
    IF use_solar_time
    THEN (IF t - 30 < 0 THEN t - 30 + 1440 ELSE t - 30)
    ELSE t

\* A faulty variant of HourJiIdx: the windows start on even hours.
HourJiIdxNoOffset(adjusted_minute) == ((adjusted_minute \div 60) \div 2) % 12

\* hour_ji_idx (lines 250-253).
HourJiIdx(adjusted_minute) == (((adjusted_minute \div 60) + 1) \div 2) % 12

\* hour_gan_idx (lines 256-257).
HourGanIdx(day_gan_idx, hour_ji_idx) == ((day_gan_idx % 5) * 2 + hour_ji_idx) % 10

\* hour_range (lines 260-261): "start~end" of the branch's HOUR_OPTIONS row.
HourRange(hour_ji_idx) ==
    <<HOUR_OPTIONS[hour_ji_idx + 1].start, HOUR_OPTIONS[hour_ji_idx + 1].end>>

\* Lines 205-283 of calculate for a finite solar_lon: the returned record.
Result(a, lon, anchor_date, anchor_idx) ==
    LET term == _get_solar_term_index(lon)
        solar_idx == term[1]
        near == _is_near_boundary(lon)
        cal_year == CalYear(a.year, a.month, solar_idx)
        year_gan_idx == YearGanIdx(cal_year)
        year_ji_idx == YearJiIdx(cal_year)
        month_ji_idx == solar_idx
        month_gan_idx == MonthGanIdx(year_gan_idx, month_ji_idx)
        curr_day_idx == DayIdx(a, anchor_date, anchor_idx)
        day_gan_idx == curr_day_idx % 10
        day_ji_idx == curr_day_idx % 12
        hour_ji_idx ==
            HourJiIdx(AdjustedMinute(a.hour[1], a.minute, a.use_solar_time))
        hour_gan_idx == HourGanIdx(day_gan_idx, hour_ji_idx)
    IN  [ year_pillar |-> _make_pillar(year_gan_idx, year_ji_idx),
          month_pillar |-> _make_pillar(month_gan_idx, month_ji_idx),
          day_pillar |-> _make_pillar(day_gan_idx, day_ji_idx),
          hour_pillar |->
              IF a.hour # None THEN Some(_make_pillar(hour_gan_idx, hour_ji_idx))
              ELSE None,
          hour_range |-> IF a.hour # None THEN Some(HourRange(hour_ji_idx)) ELSE None,
          day_master |-> GAN[day_gan_idx + 1],
          day_master_element |-> GAN_TO_ELEMENT[GAN[day_gan_idx + 1]],
          day_master_description |-> DAY_MASTER_DESC[GAN[day_gan_idx + 1]],
          meta |->
            [ solar_time_applied |-> a.use_solar_time,
              solar_longitude_deg |-> Round2(lon),
              solar_term_idx |-> solar_idx,
              solar_term_name |-> term[2],
              is_boundary |-> near[1],
              boundary_reason |-> near[2],
              calculation_method |-> "ephem_astronomical",
              timezone |-> "Asia/Seoul" ] ]

\* A faulty variant of Reraise: only ValueError is caught and wrapped.
ReraiseValueErrorOnly(inner) ==
    IF inner = "ValueError" THEN [type |-> "CalculationError", cause |-> inner]
    ELSE [type |-> inner, cause |-> inner]

\* except Exception as e: raise CalculationError(...) (lines 285-286): the
\* exception that leaves calculate for an exception `inner` raised inside it.
Reraise(inner) == [type |-> "CalculationError", cause |-> inner]

\* SajuEngine._to_pillar
_to_pillar(pillar_data) ==
    [ gan |-> pillar_data.gan,
      ji |-> pillar_data.ji,
      ganji |-> pillar_data.ganji,
      gan_element |-> pillar_data.gan_element,
      ji_element |-> pillar_data.ji_element,
      gan_index |-> pillar_data.gan_index,
      ji_index |-> pillar_data.ji_index ]

\* SajuEngine._calc_daeun
_calc_daeun(year_gan_idx, gender) ==
    IF gender = None THEN None
    ELSE LET is_yang_year == year_gan_idx % 2 = 0
             is_male == gender[1] \in {"male", "nam", "namseong"}
         IN  Some([ start_age |-> 3,
                    direction |-> IF (is_male /\ is_yang_year)
                                      \/ (~is_male /\ ~is_yang_year)
                                  THEN "forward" ELSE "backward",
                    current_daeun |-> None ])

\* A faulty variant of HasBirthTime: hour 0 (midnight) is read as no hour.
HasBirthTimeTruthy(hour) == hour # None /\ hour # Some(0)

\* has_birth_time of SajuEngine.calculate: hour is not None.
HasBirthTime(hour) == hour # None

\* SajuEngine.calculate after the engine returned `result` (lines 76-113).
SajuEngineCalculate(a, result, gender, timezone) ==
    [ saju |->
        [ year_pillar |-> _to_pillar(result.year_pillar),
          month_pillar |-> _to_pillar(result.month_pillar),
          day_pillar |-> _to_pillar(result.day_pillar),
          hour_pillar |->
              IF result.hour_pillar # None THEN Some(_to_pillar(result.hour_pillar[1]))
              ELSE None ],
      day_master |-> result.day_master,
      day_master_element |-> result.day_master_element,
      day_master_description |-> result.day_master_description,
      daeun |-> _calc_daeun(result.year_pillar.gan_index, gender),
      quality |->
        [ has_birth_time |-> HasBirthTime(a.hour),
          solar_term_boundary |-> result.meta.is_boundary,
          boundary_reason |-> result.meta.boundary_reason,
          timezone |-> timezone,
          calculation_method |-> result.meta.calculation_method ] ]

\* A faulty variant of LocalSolarLon: solar_lon is kept in a field of the
\* shared engine, where the other call's query overwrites it.
SharedSolarLon(c) ==
    IF \E o \in Callers \ {c} : solar_lon[o] # None
    THEN solar_lon[CHOOSE o \in Callers \ {c} : solar_lon[o] # None][1]
    ELSE solar_lon[c][1]

\* solar_lon of the call (line 204): a local variable of the call.
LocalSolarLon(c) == solar_lon[c][1]

\* A faulty variant of CalcHour: midnight stands in for a missing hour.
CalcHourMidnight(a) == IF a.hour # None THEN a.hour[1] ELSE 0

\* The instant calculate asks the provider about (lines 203-204).
CalcHour(a) == IF a.hour # None THEN a.hour[1] ELSE 12
Instant(a) == <<a.year, a.month, a.day, CalcHour(a), a.minute>>

-----------------------------------------------------------------------------
(* Steps of a calculate() call *)

\* Lines 201-204: the provider is asked for the longitude of the instant;
\* an exception (a bad date or time, a provider failure) leaves the call as
\* CalculationError (lines 285-286).
Query(c) ==
    /\ pc[c] = "called"
    /\ LET a == call[c][1]
           got == _get_solar_longitude(a.year, a.month, a.day, CalcHour(a), a.minute, sun[c])
       IN  /\ queried' = [queried EXCEPT ![c] = Append(@, Instant(a))]
           /\ IF got[1] = "raise"
              THEN /\ pc' = [pc EXCEPT ![c] = "raised"]
                   /\ exc' = [exc EXCEPT ![c] = Some(Reraise(got[2]))]
                   /\ UNCHANGED solar_lon
              ELSE /\ pc' = [pc EXCEPT ![c] = "queried"]
                   /\ solar_lon' = [solar_lon EXCEPT ![c] = Some(got[2])]
                   /\ UNCHANGED exc
    /\ UNCHANGED <<ANCHOR_DATE, ANCHOR_IDX, call, sun, ret, saju_ret>>
    /\ UNCHANGED <<recoveryVars, jobVars, builderVars>>

\* Lines 205-283: the pillars are computed and the record returned; int() of
\* a non-finite longitude raises ValueError, which leaves the call as
\* CalculationError.  SajuEngine.calculate (saju_engine.py lines 67-113), the
\* caller, converts the returned record and lets an exception pass.
Compute(c) ==
    /\ pc[c] = "queried"
    /\ IF LocalSolarLon(c).kind = "nan"
       THEN /\ pc' = [pc EXCEPT ![c] = "raised"]
            /\ exc' = [exc EXCEPT ![c] = Some(Reraise("ValueError"))]
            /\ UNCHANGED <<ret, saju_ret>>
       ELSE LET result == Result(call[c][1], LocalSolarLon(c).deg,
                                 ANCHOR_DATE, ANCHOR_IDX)
            IN  /\ pc' = [pc EXCEPT ![c] = "returned"]
                /\ ret' = [ret EXCEPT ![c] = Some(result)]
                /\ saju_ret' = [saju_ret EXCEPT ![c] =
                      Some(SajuEngineCalculate(call[c][1], result, None, "Asia/Seoul"))]
                /\ UNCHANGED exc
    /\ UNCHANGED <<ANCHOR_DATE, ANCHOR_IDX, call, sun, solar_lon, queried>>
    /\ UNCHANGED <<recoveryVars, jobVars, builderVars>>

Next == \E c \in Callers : Query(c) \/ Compute(c)

-----------------------------------------------------------------------------
(* The calls followed *)

\* The arguments of calculate(year, month, day, hour, minute, use_solar_time).
Args(year, month, day, hour, minute, use_solar_time) ==
    [ year |-> year, month |-> month, day |-> day, hour |-> hour,
      minute |-> minute, use_solar_time |-> use_solar_time ]

\* A request: the arguments and the provider's answer for their instant.
Request(args, answer) == [args |-> args, sun |-> answer]

\* One request, made by caller a; the other callers make none.
Single(r) == [c \in Callers |-> IF c = "a" THEN Some(r) ELSE None]
\* Two requests, made by callers a and b.
Pair(ra, rb) ==
    [c \in Callers |-> IF c = "a" THEN Some(ra) ELSE IF c = "b" THEN Some(rb) ELSE None]
\* Three requests.
Triple(ra, rb, rc) ==
    [c \in Callers |-> IF c = "a" THEN Some(ra) ELSE IF c = "b" THEN Some(rb) ELSE Some(rc)]

\* The engine as constructed by __init__ (lines 113-114), with the requests
\* of one scenario of `scenarios` about to be served.
EngineInit(scenarios) ==
    /\ ANCHOR_DATE = <<2000, 1, 1>>
    /\ ANCHOR_IDX = 54
    /\ \E s \in scenarios :
          /\ call = [c \in Callers |-> IF s[c] = None THEN None ELSE Some(s[c][1].args)]
          /\ sun = [c \in Callers |-> IF s[c] = None THEN SunRaise ELSE s[c][1].sun]
          /\ pc = [c \in Callers |-> IF s[c] = None THEN "idle" ELSE "called"]
    /\ solar_lon = [c \in Callers |-> None]
    /\ queried = [c \in Callers |-> <<>>]
    /\ ret = [c \in Callers |-> None]
    /\ exc = [c \in Callers |-> None]
    /\ saju_ret = [c \in Callers |-> None]

\* No recovery call is made.
RecoveryIdle ==
    /\ reports = <<>>
    /\ rec_pc = "idle"
    /\ rec_todo = <<>>
    /\ started = <<>>
    /\ fail_calls = <<>>
    /\ recovered_count = 0
    /\ rec_ret = None

\* No job is followed.
JobsIdle ==
    /\ _client = None
    /\ job = None
    /\ job_ops = 0

\* The builder as constructed (report_builder.py lines 567-569), no call made.
BuilderIdle ==
    /\ _semaphore = None
    /\ sem = <<>>
    /\ bcall = <<>>
    /\ bpc = <<>>
    /\ alloc = <<>>
    /\ task = <<>>

\* The engine with the requests of one scenario about to be served; the
\* other services are not used.
InitFrom(scenarios) ==
    /\ EngineInit(scenarios)
    /\ RecoveryIdle
    /\ JobsIdle
    /\ BuilderIdle

Years == MinYear..MaxYear
\* Hours and minutes, with the values next to each end of the valid range.
Hours == {None} \cup {Some(h) : h \in -1..24}
Minutes == {-1, 0, 29, 30, 59, 60}
\* The first and the last grid longitude of every 15-degree band.
BandEdges ==
    {l \in Lons : l % Deg(15) = 0 \/ (l + 1) % Deg(15) = 0}

\* Every day number of every month of every year, at noon of an unknown
\* hour and at 23:00: the dates the day pillar is computed from.
DateRequests ==
    { Request(Args(y, m, d, h, 0, TRUE), SunLon(Deg(280))) :
        y \in Years, m \in 0..13, d \in 0..32, h \in {None, Some(23)} }

\* Every hour, the minutes around the half hour, and both settings of the
\* solar-time flag, on ten consecutive days (one per day stem).
TimeRequests ==
    { Request(Args(2000, 1, d, h, mi, ust), SunLon(Deg(280))) :
        d \in 1..10, h \in Hours, mi \in Minutes, ust \in BOOLEAN }

\* Every longitude of the grid, a non-finite value and a provider failure.
LonRequests ==
    { Request(Args(2000, 6, 15, None, 0, TRUE), answer) :
        answer \in {SunLon(l) : l \in Lons} \cup {SunNaN, SunRaise} }

\* Every year and month with the longitudes at the edges of every band.
YearRequests ==
    { Request(Args(y, m, 4, Some(12), 0, TRUE), SunLon(l)) :
        y \in Years, m \in 1..12, l \in BandEdges }

\* The regression case of run_tests (line 340), with every longitude of the
\* band the sun is in at that instant.
RegressionRequests ==
    { Request(Args(1978, 5, 16, Some(11), 0, TRUE), SunLon(l)) :
        l \in {x \in Lons : x >= Deg(45) /\ x < Deg(75)} }

Requests ==
    DateRequests \cup TimeRequests \cup LonRequests \cup YearRequests
        \cup RegressionRequests

Init == InitFrom({Single(r) : r \in Requests})

Spec == Init /\ [][Next]_vars

-----------------------------------------------------------------------------
(* Reading a call's outcome *)

Returned(c) == pc[c] = "returned"
ArgsOf(c) == call[c][1]
ResultOf(c) == ret[c][1]
\* The longitude a returned call computed from, in grid units.
LonOf(c) == solar_lon[c][1].deg
DateOf(c) == <<ArgsOf(c).year, ArgsOf(c).month, ArgsOf(c).day>>

\* The pillars present in a result.
PillarsOf(r) ==
    {r.year_pillar, r.month_pillar, r.day_pillar}
        \cup (IF r.hour_pillar # None THEN {r.hour_pillar[1]} ELSE {})

\* The circular distance between two longitudes, in grid units.
CircDist(x, y) ==
    LET d == (x - y) % Deg(360) IN IF d <= Deg(360) - d THEN d ELSE Deg(360) - d

\* The multiples of 15 degrees in [0, 360) within 1.5 degrees of a longitude.
BoundariesNear(l) ==
    {b \in {15 * k : k \in 0..23} : 2 * CircDist(l, Deg(b)) <= 3 * LonPerDeg}

-----------------------------------------------------------------------------
(* C1 *)

\* C1: every pillar present in a returned result has gan_index in 0..9,
\* ji_index in 0..11, and the two of the same parity.
C1_PillarParity ==
    \A c \in Callers :
        Returned(c) =>
            \A p \in PillarsOf(ResultOf(c)) :
                /\ p.gan_index \in 0..9
                /\ p.ji_index \in 0..11
                /\ p.gan_index % 2 = p.ji_index % 2

\* A call with an hour returned four pillars, the year pillar of odd parity
\* and the month pillar of even parity.
C1_Witness ==
    /\ Returned("a")
    /\ Cardinality(PillarsOf(ResultOf("a"))) >= 2
    /\ ResultOf("a").hour_pillar # None
    /\ ResultOf("a").year_pillar.gan_index % 2 = 1
    /\ ResultOf("a").month_pillar.ji_index % 2 = 0

-----------------------------------------------------------------------------
(* C2 *)

\* C2: a call for 2000-01-01 returns the day pillar of cycle index 54
\* (gan_index 4, ji_index 6, ganji mu-o), whatever the hour, minute and flag.
C2_AnchorDayPillar ==
    \A c \in Callers :
        (Returned(c) /\ DateOf(c) = <<2000, 1, 1>>) =>
            /\ ResultOf(c).day_pillar.gan_index = 54 % 10
            /\ ResultOf(c).day_pillar.ji_index = 54 % 12
            /\ ResultOf(c).day_pillar.gan_index = 4
            /\ ResultOf(c).day_pillar.ji_index = 6
            /\ ResultOf(c).day_pillar.ganji = <<"mu", "o">>

\* A call for 2000-01-01 23:59 without the solar-time correction returned.
C2_Witness ==
    /\ Returned("a")
    /\ DateOf("a") = <<2000, 1, 1>>
    /\ ArgsOf("a").hour = Some(23)
    /\ ArgsOf("a").minute = 59
    /\ ~ArgsOf("a").use_solar_time
    /\ ResultOf("a").day_pillar.ganji = <<"mu", "o">>

-----------------------------------------------------------------------------
(* C5 *)

\* The sexagenary year as the claim states it, from the civil year and month
\* and the month-branch index of the result.
SexagenaryYear(year, month, month_branch) ==
    IF month \in {1, 2} /\ month_branch \in {0, 1} THEN year - 1 ELSE year

\* C5: the year pillar is that of civil_year - 1 exactly when the civil month
\* is 1 or 2 and the month branch is 0 or 1, and that of civil_year otherwise:
\* gan_index = (sy - 4) mod 10, ji_index = (sy - 4) mod 12.
C5_YearPillar ==
    \A c \in Callers :
        Returned(c) =>
            LET r == ResultOf(c)
                sy == SexagenaryYear(ArgsOf(c).year, ArgsOf(c).month,
                                     r.month_pillar.ji_index)
            IN  /\ r.year_pillar.gan_index = (sy - 4) % 10
                /\ r.year_pillar.ji_index = (sy - 4) % 12
                /\ r.meta.solar_term_idx = r.month_pillar.ji_index

\* A February call before the spring start returned the previous year's
\* pillar, which is not the civil year's.
C5_Witness ==
    /\ Returned("a")
    /\ ArgsOf("a").month = 2
    /\ ResultOf("a").month_pillar.ji_index = 1
    /\ ResultOf("a").year_pillar.gan_index = (ArgsOf("a").year - 5) % 10
    /\ ResultOf("a").year_pillar.gan_index # (ArgsOf("a").year - 4) % 10

-----------------------------------------------------------------------------
(* C7 *)

-----------------------------------------------------------------------------
(* C9 *)

\* C9: is_boundary is true exactly when some multiple of 15 degrees lies within
\* 1.5 degrees of the longitude on the circle; otherwise boundary_reason is
\* absent.
C9_BoundaryFlag ==
    \A c \in Callers :
        Returned(c) =>
            LET m == ResultOf(c).meta IN
            /\ m.is_boundary = (BoundariesNear(LonOf(c)) # {})
            /\ (~m.is_boundary) => m.boundary_reason = None

\* A call at 359 degrees, one degree from the boundary at 0, returned the flag.
C9_Witness ==
    /\ Returned("a")
    /\ LonOf("a") = Deg(359)
    /\ ResultOf("a").meta.is_boundary

-----------------------------------------------------------------------------
(* C10 *)

\* C10 as stated: the reason is "near_spring_start" at the 315-degree boundary
\* and "near_term_change" at every other one.
C10_AsStated ==
    \A c \in Callers :
        (Returned(c) /\ ResultOf(c).meta.is_boundary) =>
            ResultOf(c).meta.boundary_reason =
                Some(IF 315 \in BoundariesNear(LonOf(c)) THEN "near_spring_start"
                     ELSE "near_term_change")

\* C10, amended: when the flag is true exactly one boundary is within the
\* window, and the reason is "near_ipchun" when it is 315 degrees and
\* "near_term_change" otherwise.
C10_BoundaryReason ==
    \A c \in Callers :
        (Returned(c) /\ ResultOf(c).meta.is_boundary) =>
            /\ Cardinality(BoundariesNear(LonOf(c))) = 1
            /\ ResultOf(c).meta.boundary_reason =
                  Some(IF 315 \in BoundariesNear(LonOf(c)) THEN "near_ipchun"
                       ELSE "near_term_change")

\* A call 1.5 degrees past 315 returned the spring-start reason.
C10_Witness ==
    /\ Returned("a")
    /\ 2 * (LonOf("a") - Deg(315)) = 3 * LonPerDeg
    /\ ResultOf("a").meta.is_boundary
    /\ ResultOf("a").meta.boundary_reason = Some("near_ipchun")

-----------------------------------------------------------------------------
(* The civil calendar, counted independently of the engine's day arithmetic *)

CivilLeap(y) == (y % 4 = 0 /\ y % 100 # 0) \/ y % 400 = 0

CivilDaysIn(y, m) ==
    CASE m \in {1, 3, 5, 7, 8, 10, 12} -> 31
      [] m \in {4, 6, 9, 11} -> 30
      [] m = 2 -> IF CivilLeap(y) THEN 29 ELSE 28

\* The civil date after a date.
NextDate(date) ==
    LET y == date[1]
        m == date[2]
        d == date[3]
    IN  IF d < CivilDaysIn(y, m) THEN <<y, m, d + 1>>
        ELSE IF m < 12 THEN <<y, m + 1, 1>>
        ELSE <<y + 1, 1, 1>>

\* The Julian day number of a Gregorian date (years counted from March).
JulianDay(date) ==
    LET k == IF date[2] <= 2 THEN 1 ELSE 0
        y == date[1] + 4800 - k
        m == date[2] + 12 * k - 3
    IN  date[3] + ((153 * m + 2) \div 5) + 365 * y
            + (y \div 4) - (y \div 100) + (y \div 400) - 32045

\* The position in the 60-cycle of a pillar of equal parity.
CycleOf(p) ==
    CHOOSE n \in 0..59 : n % 10 = p.gan_index /\ n % 12 = p.ji_index

-----------------------------------------------------------------------------
(* C3 *)

\* The years of the day-by-day walk: the model's years and the two century
\* years next to them that are not leap years.
WalkYears == Years \cup {1900, 2100}

\* A date and the date after it, for every date of the walk's years.
NextDayScenarios ==
    { Pair(Request(Args(y, m, d, None, 0, TRUE), SunLon(Deg(280))),
           Request(Args(NextDate(<<y, m, d>>)[1], NextDate(<<y, m, d>>)[2],
                        NextDate(<<y, m, d>>)[3], Some(0), 0, FALSE),
                   SunLon(Deg(280)))) :
        y \in WalkYears, m \in 1..12, d \in 1..31 }

InitNextDay ==
    InitFrom({s \in NextDayScenarios :
                 LET a == s["a"][1].args IN a.day <= CivilDaysIn(a.year, a.month)})

SpecNextDay == InitNextDay /\ [][Next]_vars

\* C3: with d the whole-day Gregorian difference from 2000-01-01 and
\* n = (54 + d) floored-mod 60, the day pillar is (n mod 10, n mod 12) and n is
\* in 0..59; the day pillar of the date after D is one further in the cycle.
C3_DayCycle ==
    /\ \A c \in Callers :
          Returned(c) =>
              LET d == JulianDay(DateOf(c)) - JulianDay(<<2000, 1, 1>>)
                  n == (54 + d) % 60
              IN  /\ n \in 0..59
                  /\ ResultOf(c).day_pillar.gan_index = n % 10
                  /\ ResultOf(c).day_pillar.ji_index = n % 12
    /\ (Returned("a") /\ Returned("b") /\ DateOf("b") = NextDate(DateOf("a"))) =>
          CycleOf(ResultOf("b").day_pillar)
              = (CycleOf(ResultOf("a").day_pillar) + 1) % 60

\* A leap day before the anchor (a negative day difference) and the day
\* after it both returned, one step apart in the cycle.
C3_Witness ==
    /\ Returned("a") /\ Returned("b")
    /\ DateOf("a") = <<1996, 2, 29>>
    /\ DateOf("b") = <<1996, 3, 1>>
    /\ JulianDay(DateOf("a")) - JulianDay(<<2000, 1, 1>>) = -1402
    /\ CycleOf(ResultOf("a").day_pillar) = 32
    /\ CycleOf(ResultOf("b").day_pillar) = 33

-----------------------------------------------------------------------------
(* C4 *)

\* The other arguments and longitudes two calls for one date may differ in.
SameDateTimes ==
    { <<h, mi, ust, l>> :
        h \in {None, Some(0), Some(23)}, mi \in {0, 59}, ust \in BOOLEAN,
        l \in {Deg(280), Deg(316)} }

\* Two calls for the same civil date.
SameDateScenarios ==
    { Pair(Request(Args(y, m, d, ta[1], ta[2], ta[3]), SunLon(ta[4])),
           Request(Args(y, m, d, tb[1], tb[2], tb[3]), SunLon(tb[4]))) :
        y \in {MinYear, MaxYear}, m \in {2, 12}, d \in {1, 28},
        ta \in SameDateTimes, tb \in SameDateTimes }

InitSameDate == InitFrom(SameDateScenarios)

SpecSameDate == InitSameDate /\ [][Next]_vars

\* C4: two calls for the same civil date return the same day pillar and day
\* master, whatever their hour, minute, flag and longitude.
C4_DayPillarOfDateOnly ==
    (Returned("a") /\ Returned("b") /\ DateOf("a") = DateOf("b")) =>
        /\ ResultOf("a").day_pillar = ResultOf("b").day_pillar
        /\ ResultOf("a").day_master = ResultOf("b").day_master
        /\ ResultOf("a").day_master_element = ResultOf("b").day_master_element
        /\ ResultOf("a").day_master_description = ResultOf("b").day_master_description

\* A call without an hour and a call at 23:59 of the same date, with
\* different flags and longitudes, both returned.
C4_Witness ==
    /\ Returned("a") /\ Returned("b")
    /\ DateOf("a") = DateOf("b")
    /\ ArgsOf("a").hour = None
    /\ ArgsOf("b").hour = Some(23) /\ ArgsOf("b").minute = 59
    /\ ArgsOf("a").use_solar_time # ArgsOf("b").use_solar_time
    /\ LonOf("a") # LonOf("b")
    /\ ResultOf("a").month_pillar # ResultOf("b").month_pillar

-----------------------------------------------------------------------------
(* C6 *)

\* Whole degrees, and the last grid point below each whole degree that is a
\* multiple of 15.
DegreeSamples ==
    {l \in Lons : l % LonPerDeg = 0 \/ (l + 1) % Deg(15) = 0}

\* Just below 315 degrees: within one solar term (15 degrees) below it.
JustBelowSpring(l) == l >= Deg(300) /\ l < Deg(315)
\* At or above 315 degrees, up to the end of the circle.
FromSpring(l) == l >= Deg(315) /\ l < Deg(360)

\* Two calls in early February of one year, the first just below the spring
\* start and the second at or above it.
SpringScenarios ==
    { Pair(Request(Args(y, 2, dd[1], Some(12), 0, TRUE), SunLon(la)),
           Request(Args(y, 2, dd[2], Some(12), 0, TRUE), SunLon(lb))) :
        y \in Years \cup {2025}, dd \in {<<3, 5>>, <<4, 4>>},
        la \in {l \in DegreeSamples : JustBelowSpring(l)},
        lb \in {l \in DegreeSamples : FromSpring(l) /\ l < Deg(330)}
                  \cup {Deg(360) - 1} }

InitSpring == InitFrom(SpringScenarios)

SpecSpring == InitSpring /\ [][Next]_vars

\* C6: of two calls in early February of one civil year, the first just below
\* 315 degrees and the second at or above 315 degrees, the second's year
\* pillar is the successor of the first's (stem +1 mod 10, branch +1 mod 12);
\* 2025-02-03 gives gap-jin and 2025-02-05 gives eul-sa.
C6_SpringAdvancesYear ==
    ( /\ Returned("a") /\ Returned("b")
      /\ ArgsOf("a").year = ArgsOf("b").year
      /\ ArgsOf("a").month = 2 /\ ArgsOf("b").month = 2
      /\ ArgsOf("a").day <= ArgsOf("b").day
      /\ JustBelowSpring(LonOf("a")) /\ FromSpring(LonOf("b")) ) =>
        LET ya == ResultOf("a").year_pillar
            yb == ResultOf("b").year_pillar
        IN  /\ yb.gan_index = (ya.gan_index + 1) % 10
            /\ yb.ji_index = (ya.ji_index + 1) % 12
            /\ (DateOf("a") = <<2025, 2, 3>>) => ya.ganji = <<"gap", "jin">>
            /\ (DateOf("b") = <<2025, 2, 5>>) => yb.ganji = <<"eul", "sa">>

\* 2025-02-03 just below 315 degrees and 2025-02-05 just above it returned
\* gap-jin and eul-sa.
C6_Witness ==
    /\ Returned("a") /\ Returned("b")
    /\ DateOf("a") = <<2025, 2, 3>> /\ DateOf("b") = <<2025, 2, 5>>
    /\ LonOf("a") = Deg(315) - 1 /\ LonOf("b") = Deg(316)
    /\ ResultOf("a").year_pillar.ganji = <<"gap", "jin">>
    /\ ResultOf("b").year_pillar.ganji = <<"eul", "sa">>

-----------------------------------------------------------------------------
(* C8 *)

\* The 15-degree band of a longitude, 0..23.
Band(l) == l \div Deg(15)

\* la and lb lie on either side of exactly one multiple of 15 degrees, la
\* below it and lb at or above it (the boundary at 360 = 0 included).
Straddle(la, lb) == Band(lb) = (Band(la) + 1) % 24

\* The boundary between them, in degrees.
BoundaryBetween(la, lb) == 15 * Band(lb)

\* Two calls a day apart whose longitudes straddle one boundary.
StraddleScenarios ==
    UNION { { Pair(Request(Args(2000, 6, 15, Some(12), 0, TRUE), SunLon(la)),
                   Request(Args(2000, 6, 16, Some(12), 0, TRUE), SunLon(lb))) :
                lb \in {l \in DegreeSamples : Straddle(la, l)} } :
            la \in DegreeSamples }

InitStraddle == InitFrom(StraddleScenarios)

SpecStraddle == InitStraddle /\ [][Next]_vars

-----------------------------------------------------------------------------
(* C11 *)

\* The stem of the month of branch 2 (the first month), by year stem mod 5.
FirstMonthStem == <<2, 4, 6, 8, 0>>

\* C11: the month pillar's branch is the month-branch index mb and its stem is
\* (((ys mod 5) * 2 + 2) + ((mb - 2) floored-mod 12)) mod 10 for the year stem
\* ys; it depends on ys only through ys mod 5, and the month of branch 2 has
\* stem 2, 4, 6, 8, 0 for ys mod 5 = 0, 1, 2, 3, 4.
C11_MonthPillar ==
    \A c \in Callers :
        Returned(c) =>
            LET r == ResultOf(c)
                ys == r.year_pillar.gan_index
                mb == r.meta.solar_term_idx
            IN  /\ r.month_pillar.ji_index = mb
                /\ r.month_pillar.gan_index
                      = (((ys % 5) * 2 + 2) + ((mb - 2) % 12)) % 10
                /\ r.month_pillar.gan_index
                      = (FirstMonthStem[(ys % 5) + 1] + ((mb - 2) % 12)) % 10
                /\ (mb = 2) => r.month_pillar.gan_index = FirstMonthStem[(ys % 5) + 1]

\* In a year of stem 9 the month of branch 1, the last of the year, returned
\* stem 1: the first month's stem 0 and a gap of 11.
C11_Witness ==
    /\ Returned("a")
    /\ ResultOf("a").year_pillar.gan_index = 9
    /\ ResultOf("a").month_pillar.ji_index = 1
    /\ ResultOf("a").month_pillar.gan_index = 1

-----------------------------------------------------------------------------
(* C12, C13 *)

\* Every minute of the day, with and without the solar-time correction, on
\* ten consecutive days (one per day stem).
ClockRequests ==
    { Request(Args(2000, 1, d, Some(h), mi, ust), SunLon(Deg(280))) :
        d \in 1..10, h \in 0..23, mi \in 0..59, ust \in BOOLEAN }

InitClock == InitFrom({Single(r) : r \in ClockRequests})

SpecClock == InitClock /\ [][Next]_vars

\* The minute of the day the hour pillar is read from, as the claims state it.
EffectiveMinute(a) ==
    LET t == a.hour[1] * 60 + a.minute
    IN  IF a.use_solar_time THEN (t - 30) % 1440 ELSE t

\* The day stem of a civil date, by the day count from 2000-01-01.
DayStemOf(date) ==
    ((54 + JulianDay(date) - JulianDay(<<2000, 1, 1>>)) % 60) % 10

\* C12: with t = hour * 60 + minute, less 30 and wrapped into 0..1439 when
\* use_solar_time is true, the hour pillar has ji_index
\* (((t div 60) + 1) div 2) mod 12 and gan_index ((ds mod 5) * 2 + ji_index)
\* mod 10, ds being the day stem of the given civil date.
C12_HourPillar ==
    \A c \in Callers :
        (Returned(c) /\ ArgsOf(c).hour # None) =>
            LET t == EffectiveMinute(ArgsOf(c))
                ji == (((t \div 60) + 1) \div 2) % 12
                ds == DayStemOf(DateOf(c))
                hp == ResultOf(c).hour_pillar[1]
            IN  /\ t \in 0..1439
                /\ hp.ji_index = ji
                /\ hp.gan_index = ((ds % 5) * 2 + ji) % 10
                /\ ResultOf(c).day_pillar.gan_index = ds

\* A call at 00:15 with the correction, which wraps to 23:45, returned branch
\* 0 with the stem that the day stem of its own date gives.
C12_Witness ==
    /\ Returned("a")
    /\ ArgsOf("a").hour = Some(0) /\ ArgsOf("a").minute = 15
    /\ ArgsOf("a").use_solar_time
    /\ DateOf("a") = <<2000, 1, 2>>
    /\ ResultOf("a").day_pillar.gan_index = 5
    /\ ResultOf("a").hour_pillar[1].ji_index = 0
    /\ ResultOf("a").hour_pillar[1].gan_index = 0

\* A minute of the day as minutes since 00:00.
MinuteOf(hm) == hm[1] * 60 + hm[2]

\* Whether minute t of the day lies in the window of a row of HOUR_OPTIONS,
\* a window that may run over midnight.
InWindow(row, t) ==
    IF MinuteOf(row.start) <= MinuteOf(row.end)
    THEN t >= MinuteOf(row.start) /\ t <= MinuteOf(row.end)
    ELSE t >= MinuteOf(row.start) \/ t <= MinuteOf(row.end)

\* C13: the minute the hour pillar is read from lies in exactly one window of
\* HOUR_OPTIONS, the one of the pillar's branch; that window is 120 minutes
\* long and starts 120 * branch minutes after 23:00; hour_range is that window.
C13_HourWindows ==
    \A c \in Callers :
        (Returned(c) /\ ArgsOf(c).hour # None) =>
            LET t == EffectiveMinute(ArgsOf(c))
                ji == ResultOf(c).hour_pillar[1].ji_index
                row == HOUR_OPTIONS[ji + 1]
            IN  /\ {i \in 1..12 : InWindow(HOUR_OPTIONS[i], t)} = {ji + 1}
                /\ row.index = ji
                /\ row.ji = ResultOf(c).hour_pillar[1].ji
                /\ MinuteOf(row.start) = (23 * 60 + 120 * ji) % 1440
                /\ ((MinuteOf(row.end) - MinuteOf(row.start)) % 1440) + 1 = 120
                /\ ResultOf(c).hour_range = Some(<<row.start, row.end>>)

\* A call at 23:00 without the correction returned branch 0 and the window
\* 23:00~00:59.
C13_Witness ==
    /\ Returned("a")
    /\ ArgsOf("a").hour = Some(23) /\ ArgsOf("a").minute = 0
    /\ ~ArgsOf("a").use_solar_time
    /\ ResultOf("a").hour_pillar[1].ji_index = 0
    /\ ResultOf("a").hour_range = Some(<< <<23, 0>>, <<0, 59>> >>)

-----------------------------------------------------------------------------
(* C14 *)

\* The fields of a full pillar.
PillarFields ==
    {"ganji", "gan", "ji", "gan_hanja", "ji_hanja", "gan_element",
     "ji_element", "gan_index", "ji_index"}

FullPillar(p) ==
    /\ DOMAIN p = PillarFields
    /\ p.gan_index \in 0..9
    /\ p.ji_index \in 0..11

\* C14: hour_pillar and hour_range are present in a returned result exactly
\* when an hour was supplied (hour 0 included), the hour pillar then being a
\* full pillar; the year, month and day pillars are present either way; the
\* record of SajuEngine has an hour pillar, and has_birth_time true, exactly
\* when an hour was supplied.
C14_HourPillarPresence ==
    \A c \in Callers :
        Returned(c) =>
            LET r == ResultOf(c)
                w == saju_ret[c][1]
                supplied == ArgsOf(c).hour # None
            IN  /\ (r.hour_pillar # None) <=> supplied
                /\ (r.hour_range # None) <=> supplied
                /\ supplied => FullPillar(r.hour_pillar[1])
                /\ FullPillar(r.year_pillar)
                /\ FullPillar(r.month_pillar)
                /\ FullPillar(r.day_pillar)
                /\ (w.saju.hour_pillar # None) <=> supplied
                /\ w.quality.has_birth_time <=> supplied

\* A call with hour 0 returned an hour pillar and has_birth_time true.
C14_Witness ==
    /\ Returned("a")
    /\ ArgsOf("a").hour = Some(0)
    /\ ResultOf("a").hour_pillar # None
    /\ saju_ret["a"][1].quality.has_birth_time

-----------------------------------------------------------------------------
(* C15 *)

\* C15: calculate(1978, 5, 16, 11, 0, use_solar_time=True), the longitude of
\* that instant lying in the band from 45 to 75 degrees, returns the year
\* pillar mu-o (4, 6), the month pillar jeong-sa (3, 5), the day pillar mu-in
\* (4, 2) and the hour pillar jeong-sa (3, 5).
C15_Regression1978 ==
    \A c \in Callers :
        ( /\ Returned(c)
          /\ ArgsOf(c) = Args(1978, 5, 16, Some(11), 0, TRUE)
          /\ LonOf(c) >= Deg(45) /\ LonOf(c) < Deg(75) ) =>
            LET r == ResultOf(c)
                Is(p, g, j, gan, ji) ==
                    /\ p.gan_index = g /\ p.ji_index = j
                    /\ p.gan = gan /\ p.ji = ji /\ p.ganji = <<gan, ji>>
            IN  /\ Is(r.year_pillar, 4, 6, "mu", "o")
                /\ Is(r.month_pillar, 3, 5, "jeong", "sa")
                /\ Is(r.day_pillar, 4, 2, "mu", "in")
                /\ r.hour_pillar # None
                /\ Is(r.hour_pillar[1], 3, 5, "jeong", "sa")

\* The regression call returned, with the sun at 55 degrees.
C15_Witness ==
    /\ Returned("a")
    /\ ArgsOf("a") = Args(1978, 5, 16, Some(11), 0, TRUE)
    /\ LonOf("a") = Deg(55)
    /\ ResultOf("a").day_pillar.ganji = <<"mu", "in">>

-----------------------------------------------------------------------------
(* C16 *)

\* The calls in which something fails: a date or time that does not exist,
\* a provider failure, or a longitude no index can be computed from.
Fails(c) ==
    LET a == ArgsOf(c)
    IN  \/ a.year \notin 1..9999
        \/ a.month \notin 1..12
        \/ a.day \notin 1..CivilDaysIn(a.year, a.month)
        \/ (a.hour # None /\ a.hour[1] \notin 0..23)
        \/ a.minute \notin 0..59
        \/ sun[c].kind \in {"raise", "nan"}

\* C16: a call in which something fails ends with CalculationError raised and
\* with nothing else: no exception of another type, no record returned by
\* calculate() and none by SajuEngine; a call that returns raised nothing.
C16_OnlyCalculationError ==
    \A c \in Callers :
        /\ (call[c] # None /\ Fails(c)) =>
              /\ pc[c] \in {"called", "queried", "raised"}
              /\ ret[c] = None /\ saju_ret[c] = None
        /\ pc[c] = "raised" =>
              /\ exc[c] # None
              /\ exc[c][1].type = "CalculationError"
              /\ ret[c] = None /\ saju_ret[c] = None
        /\ exc[c] # None => pc[c] = "raised" /\ Fails(c)
        /\ Returned(c) => exc[c] = None /\ ret[c] # None /\ saju_ret[c] # None

\* A call whose provider failed ended with CalculationError and no record.
C16_Witness ==
    /\ pc["a"] = "raised"
    /\ sun["a"] = SunRaise
    /\ exc["a"] # None
    /\ exc["a"][1].cause = "ProviderError"
    /\ ret["a"] = None

-----------------------------------------------------------------------------
(* C17 *)

\* Arguments out of range: the month, the day for its month and year, the
\* hour when supplied, or the minute.
OutOfRange(a) ==
    \/ a.month \notin 1..12
    \/ a.day \notin 1..CivilDaysIn(a.year, a.month)
    \/ (a.hour # None /\ a.hour[1] \notin 0..23)
    \/ a.minute \notin 0..59

\* C17: a call with a month outside 1..12, a day that its month and year do
\* not have, a supplied hour outside 0..23 or a minute outside 0..59 (also
\* with no hour supplied) returns no result, and once it has moved it has
\* ended with CalculationError.
C17_OutOfRangeRaises ==
    \A c \in Callers :
        (call[c] # None /\ OutOfRange(ArgsOf(c))) =>
            /\ ~Returned(c)
            /\ ret[c] = None
            /\ pc[c] # "called" =>
                  /\ pc[c] = "raised"
                  /\ exc[c] # None
                  /\ exc[c][1].type = "CalculationError"

\* A call with no hour and minute 60 ended with CalculationError.
C17_Witness ==
    /\ pc["a"] = "raised"
    /\ ArgsOf("a").hour = None
    /\ ArgsOf("a").minute = 60
    /\ exc["a"] # None
    /\ exc["a"][1].type = "CalculationError"

-----------------------------------------------------------------------------
(* C18, C19 *)

\* Calls that overlap on the shared engine: a leap day, with no hour and
\* with an hour that the correction wraps, and a date that does not exist;
\* the provider answers with one of two longitudes in different months, with
\* a non-finite value, or fails.
ConcurrentRequests ==
    { Request(args, answer) :
        args \in { Args(2000, 2, 29, None, 0, TRUE),
                   Args(2000, 2, 29, Some(0), 15, TRUE),
                   Args(1999, 2, 29, None, 0, TRUE) },
        answer \in {SunLon(Deg(280)), SunLon(Deg(316)), SunNaN, SunRaise} }

InitConcurrent ==
    InitFrom({ Triple(ra, rb, rc) :
                 ra \in ConcurrentRequests, rb \in ConcurrentRequests,
                 rc \in ConcurrentRequests })

SpecConcurrent == InitConcurrent /\ [][Next]_vars

\* A call that has ended.
Ended(c) == pc[c] \in {"returned", "raised"}

\* C18: two calls with identical arguments, for whose instant the provider
\* gives the same answer, end the same way and return identical records,
\* in whatever order their steps and the steps of another call are taken.
C18_Deterministic ==
    \A c, d \in Callers :
        ( /\ call[c] # None /\ call[d] # None
          /\ ArgsOf(c) = ArgsOf(d)
          /\ sun[c] = sun[d]
          /\ Ended(c) /\ Ended(d) ) =>
            /\ pc[c] = pc[d]
            /\ ret[c] = ret[d]
            /\ saju_ret[c] = saju_ret[d]
            /\ exc[c] = exc[d]

\* Callers a and c made the same call and b another; all three returned, a
\* and c the same record and b a different one.
C18_Witness ==
    /\ Returned("a") /\ Returned("b") /\ Returned("c")
    /\ ArgsOf("a") = ArgsOf("c") /\ sun["a"] = sun["c"]
    /\ ArgsOf("a").hour = Some(0)
    /\ sun["b"] # sun["a"]
    /\ ret["a"] = ret["c"]
    /\ ret["b"] # ret["a"]

\* C19: each of the calls running together on the shared engine ends as it
\* would alone: it returns the record computed from its own arguments and its
\* own provider answer with the anchor 2000-01-01 = 54, or raises when
\* something in it fails; ANCHOR_DATE and ANCHOR_IDX are never changed.
C19_Independent ==
    /\ ANCHOR_DATE = <<2000, 1, 1>>
    /\ ANCHOR_IDX = 54
    /\ \A c \in Callers :
          call[c] # None =>
              /\ Returned(c) =>
                    /\ ~Fails(c)
                    /\ ret[c] = Some(Result(ArgsOf(c), sun[c].deg, <<2000, 1, 1>>, 54))
                    /\ ResultOf(c).meta.solar_term_idx =
                          (((sun[c].deg + Deg(45)) % Deg(360)) \div Deg(30) + 2) % 12
              /\ pc[c] = "raised" => Fails(c) /\ ret[c] = None

\* Three calls have ended: a and c returned records of different months, and
\* b raised; the anchor is as constructed.
C19_Witness ==
    /\ Returned("a") /\ Returned("c") /\ pc["b"] = "raised"
    /\ sun["a"] = SunLon(Deg(280)) /\ sun["c"] = SunLon(Deg(316))
    /\ ResultOf("a").month_pillar.ji_index = 0
    /\ ResultOf("c").month_pillar.ji_index = 2
    /\ ANCHOR_DATE = <<2000, 1, 1>> /\ ANCHOR_IDX = 54

-----------------------------------------------------------------------------
(* C20 *)

\* The element of each stem index (two stems per element, in the order wood,
\* fire, earth, metal, water) and of each branch index.
StemElement == <<"mok", "mok", "hwa", "hwa", "to", "to", "geum", "geum", "su", "su">>
BranchElement ==
    <<"su", "to", "mok", "mok", "to", "hwa", "hwa", "to", "geum", "geum", "to", "su">>

\* C20: in every returned result day_master is day_pillar.gan and
\* day_master_element is day_pillar.gan_element; meta.solar_time_applied is
\* the use_solar_time argument; meta.calculation_method is the one fixed tag;
\* every pillar's names and elements are the table entries of its gan_index
\* and ji_index.
C20_ResultFields ==
    \A c \in Callers :
        Returned(c) =>
            LET r == ResultOf(c)
            IN  /\ r.day_master = r.day_pillar.gan
                /\ r.day_master = GAN[r.day_pillar.gan_index + 1]
                /\ r.day_master_element = r.day_pillar.gan_element
                /\ r.day_master_element = StemElement[r.day_pillar.gan_index + 1]
                /\ r.meta.solar_time_applied = ArgsOf(c).use_solar_time
                /\ r.meta.calculation_method = "ephem_astronomical"
                /\ \A p \in PillarsOf(r) :
                      /\ p.gan = GAN[p.gan_index + 1]
                      /\ p.ji = JI[p.ji_index + 1]
                      /\ p.ganji = <<GAN[p.gan_index + 1], JI[p.ji_index + 1]>>
                      /\ p.gan_hanja = GAN_HANJA[p.gan_index + 1]
                      /\ p.ji_hanja = JI_HANJA[p.ji_index + 1]
                      /\ p.gan_element = StemElement[p.gan_index + 1]
                      /\ p.ji_element = BranchElement[p.ji_index + 1]

\* A call without the correction returned a record whose day master is the
\* stem gap of its day pillar, of element mok, and whose flag is false.
C20_Witness ==
    /\ Returned("a")
    /\ ~ArgsOf("a").use_solar_time
    /\ ~ResultOf("a").meta.solar_time_applied
    /\ ResultOf("a").day_pillar.gan_index = 0
    /\ ResultOf("a").day_master = "gap"
    /\ ResultOf("a").day_master_element = "mok"
    /\ ResultOf("a").hour_pillar # None

-----------------------------------------------------------------------------
(* C21 *)

\* C21: a call asks the provider once, before any pillar is computed: nothing
\* is asked before the call moves, and from then on exactly one instant has
\* been asked, the civil date at 12:00 when no hour was supplied and at the
\* civil hour:minute, uncorrected, when one was; a record exists only after
\* the question.
C21_OneQuery ==
    \A c \in Callers :
        call[c] # None =>
            LET a == ArgsOf(c)
            IN  /\ pc[c] = "called" => queried[c] = <<>> /\ ret[c] = None
                /\ pc[c] # "called" =>
                      /\ Len(queried[c]) = 1
                      /\ queried[c][1] =
                            <<a.year, a.month, a.day,
                              IF a.hour = None THEN 12 ELSE a.hour[1], a.minute>>
                /\ pc[c] = "queried" => ret[c] = None
                /\ ret[c] # None => Len(queried[c]) = 1

\* A call without an hour asked about noon; it has returned.
C21_Witness ==
    /\ Returned("a")
    /\ ArgsOf("a").hour = None
    /\ queried["a"] = << <<2000, 1, 5, 12, 30>> >>

-----------------------------------------------------------------------------
(* C22 *)

\* The longitudes in the middle of the twelve months.
MonthMiddles == {Deg(30 * k) : k \in 0..11}

\* A call in the middle of a civil month and a call in the middle of the
\* next, the sun 30 degrees further on; ten years, one per year stem.
MonthScenarios ==
    { Pair(Request(Args(y, m, 15, None, 0, TRUE), SunLon(l)),
           Request(Args(IF m = 12 THEN y + 1 ELSE y, IF m = 12 THEN 1 ELSE m + 1,
                        15, None, 0, TRUE),
                   SunLon((l + Deg(30)) % Deg(360)))) :
        y \in MinYear..(MinYear + 9), m \in 1..12, l \in MonthMiddles }

InitMonths == InitFrom(MonthScenarios)

SpecMonths == InitMonths /\ [][Next]_vars

\* Whether the record rb is of the month after the month of ra: the next
\* branch, in the same sexagenary year, or branch 2 of the next year after
\* branch 1.
NextMonth(ra, rb) ==
    /\ rb.month_pillar.ji_index = (ra.month_pillar.ji_index + 1) % 12
    /\ CycleOf(rb.year_pillar) =
          (CycleOf(ra.year_pillar)
              + (IF ra.month_pillar.ji_index = 1 THEN 1 ELSE 0)) % 60

\* C22: from a month of the sexagenary calendar to the next (branch 2, 3,
\* ..., 11, 0, 1 of year Y, then branch 2 of year Y + 1) the month pillar's
\* position in the 60-cycle advances by exactly one, for every year stem.
C22_MonthCycle ==
    ( /\ Returned("a") /\ Returned("b")
      /\ NextMonth(ResultOf("a"), ResultOf("b")) ) =>
        CycleOf(ResultOf("b").month_pillar)
            = (CycleOf(ResultOf("a").month_pillar) + 1) % 60

\* The step from the branch-1 month of one year (January) to the branch-2
\* month of the next (February) was taken.
C22_Witness ==
    /\ Returned("a") /\ Returned("b")
    /\ NextMonth(ResultOf("a"), ResultOf("b"))
    /\ ArgsOf("a").month = 1 /\ ArgsOf("b").month = 2
    /\ ResultOf("a").month_pillar.ji_index = 1
    /\ ResultOf("b").month_pillar.ji_index = 2
    /\ ResultOf("a").year_pillar # ResultOf("b").year_pillar

-----------------------------------------------------------------------------
(* C23 *)

\* C23: without the correction, a call at 23:00..23:59 and a call at
\* 00:00..00:59 of the same civil date return the same hour pillar, of
\* branch 0 and of the stem that the date's own day stem gives, and the same
\* day pillar.
C23_LateHourSameDay ==
    ( /\ Returned("a") /\ Returned("b")
      /\ DateOf("a") = DateOf("b")
      /\ ~ArgsOf("a").use_solar_time /\ ~ArgsOf("b").use_solar_time
      /\ ArgsOf("a").hour = Some(23) /\ ArgsOf("b").hour = Some(0) ) =>
        LET ha == ResultOf("a").hour_pillar[1]
            hb == ResultOf("b").hour_pillar[1]
            ds == DayStemOf(DateOf("a"))
        IN  /\ ha = hb
            /\ ha.ji_index = 0
            /\ ha.gan_index = ((ds % 5) * 2) % 10
            /\ ResultOf("a").day_pillar = ResultOf("b").day_pillar
            /\ ResultOf("a").day_pillar.gan_index = ds

\* A call at 23:59 and a call at 00:00 of one date, both without the
\* correction, have returned.
C23_Witness ==
    /\ Returned("a") /\ Returned("b")
    /\ DateOf("a") = DateOf("b")
    /\ ~ArgsOf("a").use_solar_time /\ ~ArgsOf("b").use_solar_time
    /\ ArgsOf("a").hour = Some(23) /\ ArgsOf("a").minute = 59
    /\ ArgsOf("b").hour = Some(0) /\ ArgsOf("b").minute = 0
    /\ ResultOf("a").hour_pillar[1].ji_index = 0

-----------------------------------------------------------------------------
(* C24 *)

\* The same call with and without the correction, the provider giving the
\* same answer: every hour, the minutes at the ends of each half hour.
FlagScenarios ==
    { Pair(Request(Args(2000, 2, d, h, mi, TRUE), SunLon(l)),
           Request(Args(2000, 2, d, h, mi, FALSE), SunLon(l))) :
        d \in {4, 29}, h \in {None} \cup {Some(x) : x \in 0..23},
        mi \in {0, 29, 30, 59}, l \in {Deg(314), Deg(316)} }

InitFlag == InitFrom(FlagScenarios)

SpecFlag == InitFlag /\ [][Next]_vars

\* C24: calls that differ only in use_solar_time return the same year, month
\* and day pillars, day_master fields and longitude, term and boundary
\* metadata; the hour branches differ exactly when the hour is odd and the
\* minute below 30, and no hour pillar is returned to either without an hour.
C24_FlagFrame ==
    ( /\ Returned("a") /\ Returned("b")
      /\ DateOf("a") = DateOf("b")
      /\ ArgsOf("a").hour = ArgsOf("b").hour
      /\ ArgsOf("a").minute = ArgsOf("b").minute
      /\ sun["a"] = sun["b"]
      /\ ArgsOf("a").use_solar_time /\ ~ArgsOf("b").use_solar_time ) =>
        LET ra == ResultOf("a")
            rb == ResultOf("b")
            a == ArgsOf("a")
        IN  /\ ra.year_pillar = rb.year_pillar
            /\ ra.month_pillar = rb.month_pillar
            /\ ra.day_pillar = rb.day_pillar
            /\ ra.day_master = rb.day_master
            /\ ra.day_master_element = rb.day_master_element
            /\ ra.day_master_description = rb.day_master_description
            /\ [ra.meta EXCEPT !.solar_time_applied = FALSE] = rb.meta
            /\ ra.meta.solar_time_applied /\ ~rb.meta.solar_time_applied
            /\ a.hour = None =>
                  /\ ra.hour_pillar = None /\ rb.hour_pillar = None
                  /\ ra.hour_range = None /\ rb.hour_range = None
            /\ a.hour # None =>
                  ( (ra.hour_pillar[1].ji_index # rb.hour_pillar[1].ji_index)
                      <=> (a.hour[1] % 2 = 1 /\ a.minute < 30) )
            /\ (a.hour # None /\ ra.hour_pillar[1].ji_index = rb.hour_pillar[1].ji_index) =>
                  ra.hour_pillar = rb.hour_pillar /\ ra.hour_range = rb.hour_range

\* At 23:29 the two calls returned hour branches 11 and 0 and the same day
\* pillar.
C24_Witness ==
    /\ Returned("a") /\ Returned("b")
    /\ ArgsOf("a").use_solar_time /\ ~ArgsOf("b").use_solar_time
    /\ ArgsOf("a").hour = Some(23) /\ ArgsOf("a").minute = 29
    /\ ArgsOf("b").hour = Some(23) /\ ArgsOf("b").minute = 29
    /\ ResultOf("a").hour_pillar[1].ji_index = 11
    /\ ResultOf("b").hour_pillar[1].ji_index = 0
    /\ ResultOf("a").day_pillar = ResultOf("b").day_pillar

-----------------------------------------------------------------------------
(* recover_interrupted_jobs (job_recovery.py) *)

\* No engine call is made.
EngineIdle == EngineInit({[c \in Callers |-> None]})

\* The reports in the store.
ReportIds == {"r1", "r2", "r3"}

\* timedelta(hours=1) (line 54), in minutes.
HourMinutes == 60

\* datetime.utcnow() (line 54): the instant of the call, in minutes; the
\* creation times are counted from it.
utcnow == 0

\* created_at as the store gives it: an ISO text of a UTC instant, or a text
\* that datetime.fromisoformat does not read (the empty text of a missing
\* field included).
IsoText(minutes) == [kind |-> "iso", minutes |-> minutes]
BadText == [kind |-> "bad", minutes |-> 0]

\* datetime.fromisoformat(...).replace(tzinfo=None) (lines 63-64): the naive
\* time of the text, or ValueError.
ParseCreatedAt(created_at_str) ==
    IF created_at_str.kind = "iso" THEN <<"ok", created_at_str.minutes>>
    ELSE <<"raise", "ValueError">>

\* cutoff_time (line 54).
CutoffTime(now) == now - HourMinutes

\* A faulty variant of CreatedAfter: the comparison is turned round.
CreatedBefore(created_at, cutoff_time) == created_at < cutoff_time

\* created_at > cutoff_time (line 67).
CreatedAfter(created_at, cutoff_time) == created_at > cutoff_time

\* get_reports_by_status(status): the rows of that status, in table order.
RECURSIVE RowsFrom(_, _)
RowsFrom(ids, status) ==
    IF ids = <<>> THEN <<>>
    ELSE (IF reports[Head(ids)].status = status THEN <<reports[Head(ids)]>> ELSE <<>>)
            \o RowsFrom(Tail(ids), status)

get_reports_by_status(status) == RowsFrom(<<"r1", "r2", "r3">>, status)

\* Lines 27-32: the imports; an ImportError ends the call with 0.
RecImport ==
    /\ rec_pc = "start"
    /\ \E ok \in BOOLEAN :
          IF ok
          THEN rec_pc' = "query_generating" /\ UNCHANGED rec_ret
          ELSE rec_pc' = "done" /\ rec_ret' = Some(0)
    /\ UNCHANGED <<reports, rec_todo, started, fail_calls, recovered_count>>
    /\ UNCHANGED <<engineVars, jobVars, builderVars>>

\* Line 38: the generating reports are asked for; an exception of the store
\* ends the call with 0 (lines 93-95).
RecQueryGenerating ==
    /\ rec_pc = "query_generating"
    /\ \E ok \in BOOLEAN :
          IF ok
          THEN /\ rec_todo' = get_reports_by_status("generating")
               /\ rec_pc' = "loop_generating"
               /\ UNCHANGED rec_ret
          ELSE /\ rec_pc' = "done"
               /\ rec_ret' = Some(0)
               /\ UNCHANGED rec_todo
    /\ UNCHANGED <<reports, started, fail_calls, recovered_count>>
    /\ UNCHANGED <<engineVars, jobVars, builderVars>>

\* Lines 40-50: one turn of the first loop: a task is created for the report.
RecRestartGenerating ==
    /\ rec_pc = "loop_generating"
    /\ rec_todo # <<>>
    /\ started' = Append(started, Head(rec_todo).id)
    /\ recovered_count' = recovered_count + 1
    /\ rec_todo' = Tail(rec_todo)
    /\ UNCHANGED <<reports, rec_pc, fail_calls, rec_ret>>
    /\ UNCHANGED <<engineVars, jobVars, builderVars>>

\* Lines 52-54: after the first loop the pending reports are asked for; an
\* exception of the store ends the call with 0 (lines 93-95).
RecQueryPending ==
    /\ rec_pc = "loop_generating"
    /\ rec_todo = <<>>
    /\ \E ok \in BOOLEAN :
          IF ok
          THEN /\ rec_todo' = get_reports_by_status("pending")
               /\ rec_pc' = "loop_pending"
               /\ UNCHANGED rec_ret
          ELSE /\ rec_pc' = "done"
               /\ rec_ret' = Some(0)
               /\ UNCHANGED rec_todo
    /\ UNCHANGED <<reports, started, fail_calls, recovered_count>>
    /\ UNCHANGED <<engineVars, jobVars, builderVars>>

\* Lines 56-84: one turn of the second loop.  A recent report gets a task;
\* an older one is handed to fail_report; an exception in the turn (the
\* parse, or fail_report) is logged and the loop goes on.
RecPending ==
    /\ rec_pc = "loop_pending"
    /\ rec_todo # <<>>
    /\ LET report == Head(rec_todo)
           parsed == ParseCreatedAt(report.created_at)
       IN  IF parsed[1] = "raise"
           THEN UNCHANGED <<started, recovered_count, fail_calls>>
           ELSE IF CreatedAfter(parsed[2], CutoffTime(utcnow))
           THEN /\ started' = Append(started, report.id)
                /\ recovered_count' = recovered_count + 1
                /\ UNCHANGED fail_calls
           ELSE /\ \E ok \in BOOLEAN :
                      fail_calls' = Append(fail_calls, [id |-> report.id, ok |-> ok])
                /\ UNCHANGED <<started, recovered_count>>
    /\ rec_todo' = Tail(rec_todo)
    /\ UNCHANGED <<reports, rec_pc, rec_ret>>
    /\ UNCHANGED <<engineVars, jobVars, builderVars>>

\* Lines 86-91: after the second loop the counter is returned.
RecReturn ==
    /\ rec_pc = "loop_pending"
    /\ rec_todo = <<>>
    /\ rec_pc' = "returned"
    /\ rec_ret' = Some(recovered_count)
    /\ UNCHANGED <<reports, rec_todo, started, fail_calls, recovered_count>>
    /\ UNCHANGED <<engineVars, jobVars, builderVars>>

NextRecovery ==
    \/ RecImport
    \/ RecQueryGenerating
    \/ RecRestartGenerating
    \/ RecQueryPending
    \/ RecPending
    \/ RecReturn

\* The rows a report may have: its status, and a creation time just inside
\* the hour, an hour ago to the minute, just outside it, or unreadable.
ReportRows(id) ==
    { [id |-> id, status |-> st, created_at |-> ca] :
        st \in {"generating", "pending", "completed"},
        ca \in {IsoText(utcnow - HourMinutes + 1), IsoText(utcnow - HourMinutes),
                IsoText(utcnow - HourMinutes - 1), BadText} }

\* The server starts with some reports in the store.
InitRecovery ==
    /\ EngineIdle
    /\ JobsIdle
    /\ BuilderIdle
    /\ reports \in {f \in [ReportIds -> UNION {ReportRows(id) : id \in ReportIds}] :
                      \A id \in ReportIds : f[id].id = id}
    /\ rec_pc = "start"
    /\ rec_todo = <<>>
    /\ started = <<>>
    /\ fail_calls = <<>>
    /\ recovered_count = 0
    /\ rec_ret = None

SpecRecovery == InitRecovery /\ [][NextRecovery]_vars

-----------------------------------------------------------------------------
(* C28 *)

\* The reports a task was created for, those fail_report was called for, and
\* those for which it returned.
Restarted == {started[i] : i \in 1..Len(started)}
FailReportCalled == {fail_calls[i].id : i \in 1..Len(fail_calls)}
MarkedFailed == {fail_calls[i].id : i \in {k \in 1..Len(fail_calls) : fail_calls[k].ok}}

\* The age of a report in minutes, by its readable creation time.
Readable(id) == reports[id].created_at.kind = "iso"
AgeOf(id) == utcnow - reports[id].created_at.minutes

-----------------------------------------------------------------------------
(* C29 *)

\* C29: the value recover_interrupted_jobs returns is the number of reports
\* a regeneration task was created for during the call.
C29_AsStated ==
    rec_ret # None => rec_ret[1] = Len(started)

-----------------------------------------------------------------------------
(* SupabaseService (supabase_service.py) *)

\* The number of operations followed on the job.
MaxOps == 5

\* The values update_progress is called with.
ProgressValues == {0, 50, 100}
StepNames == {"saju", "sections"}
\* The status update_progress is called with: its default.
StatusValues == {"generating"}

\* _get_client (lines 46-66): the client is created on the first use.
GetClient == "client"

\* create_job (lines 82-110): the row is inserted as queued with progress 0;
\* an insert that returns no row raises RuntimeError.
CreateJob ==
    /\ job = None
    /\ job_ops < MaxOps
    /\ _client' = GetClient
    /\ \E inserted \in BOOLEAN :
          job' = IF inserted
                 THEN Some([ status |-> "queued", progress |-> 0,
                             current_step |-> "queued", retry_count |-> None,
                             error |-> FALSE ])
                 ELSE None
    /\ job_ops' = job_ops + 1
    /\ UNCHANGED <<engineVars, recoveryVars, builderVars>>

\* update_progress (lines 138-152): status, progress and current_step of the
\* row are overwritten; no row, no change.
UpdateProgress ==
    /\ job_ops < MaxOps
    /\ _client' = GetClient
    /\ \E progress \in ProgressValues, step \in StepNames, status \in StatusValues :
          job' = IF job = None THEN None
                 ELSE Some([job[1] EXCEPT !.status = status,
                                          !.progress = progress,
                                          !.current_step = step])
    /\ job_ops' = job_ops + 1
    /\ UNCHANGED <<engineVars, recoveryVars, builderVars>>

\* complete_job (lines 196-219).
CompleteJob ==
    /\ job_ops < MaxOps
    /\ _client' = GetClient
    /\ job' = IF job = None THEN None
              ELSE Some([job[1] EXCEPT !.status = "completed",
                                       !.progress = 100,
                                       !.current_step = "completed"])
    /\ job_ops' = job_ops + 1
    /\ UNCHANGED <<engineVars, recoveryVars, builderVars>>

\* retry_count of fail_job (line 226).
RetryCount(row) ==
    IF row = None THEN 1
    ELSE (IF row[1].retry_count = None THEN 0 ELSE row[1].retry_count[1]) + 1

\* fail_job (lines 221-235).
FailJob ==
    /\ job_ops < MaxOps
    /\ _client' = GetClient
    /\ job' = IF job = None THEN None
              ELSE Some([job[1] EXCEPT !.status = "failed",
                                       !.error = TRUE,
                                       !.retry_count = Some(RetryCount(job))])
    /\ job_ops' = job_ops + 1
    /\ UNCHANGED <<engineVars, recoveryVars, builderVars>>

NextJobs == CreateJob \/ UpdateProgress \/ CompleteJob \/ FailJob

\* The service as imported (lines 38-40, 338): no client, no job.
InitJobs ==
    /\ EngineIdle
    /\ RecoveryIdle
    /\ BuilderIdle
    /\ JobsIdle

SpecJobs == InitJobs /\ [][NextJobs]_vars

-----------------------------------------------------------------------------
(* C30 *)

\* The steps of queued -> generating -> completed or failed.
Lifecycle ==
    { <<"queued", "generating">>, <<"queued", "completed">>, <<"queued", "failed">>,
      <<"generating", "completed">>, <<"generating", "failed">> }

\* C30: a job is created queued with progress 0; a completed job has
\* progress 100; its status changes only along queued -> generating ->
\* completed or failed, and not at all once completed or failed.
C30_AsStated ==
    /\ [](job # None /\ job[1].status = "completed" => job[1].progress = 100)
    /\ [][ /\ (job = None /\ job' # None) =>
                 job'[1].status = "queued" /\ job'[1].progress = 0
           /\ (job # None /\ job' # None /\ job'[1].status # job[1].status) =>
                 <<job[1].status, job'[1].status>> \in Lifecycle ]_vars

-----------------------------------------------------------------------------
(* Rule cards (report_builder.py) *)

\* PREMIUM_SECTIONS (lines 78-86), in the order of its keys, and max_cards.
SectionIds == <<"exec", "money", "business", "team", "health", "calendar", "sprint">>
Sections == {SectionIds[i] : i \in 1..Len(SectionIds)}
MaxCards ==
    [ exec |-> 15, money |-> 18, business |-> 18, team |-> 15,
      health |-> 12, calendar |-> 12, sprint |-> 10 ]

\* top_limit=100 (line 666).
top_limit == 100

\* A rule card: its "id" (or "_id") when it has one, its text (topic), the
\* score its text gets from the feature and core tags, and the sections
\* whose weight tags its text holds (one tag each).
Card(id, topic, score, tags) ==
    [id |-> id, topic |-> topic, score |-> score, tags |-> tags]

\* score_rulecard_global (lines 362-384).
score_rulecard_global(card) == card.score

\* section_score (lines 470-473): 2.0 for each section tag in the text.
SectionScore(card, section_id) == IF section_id \in card.tags THEN 2 ELSE 0

\* scored.sort(key=lambda x: x[0], reverse=True) on a list of (score, card):
\* by descending score, entries of equal score staying in their order; the
\* scores are 0, 1 or 2.
ByScoreDesc(scored) ==
    SelectSeq(scored, LAMBDA x : x[1] = 2)
        \o SelectSeq(scored, LAMBDA x : x[1] = 1)
        \o SelectSeq(scored, LAMBDA x : x[1] = 0)

\* [card for _, card in scored[:n]]
CardsOf(scored, n) ==
    [i \in 1..(IF n < Len(scored) THEN n ELSE Len(scored)) |-> scored[i][2]]

\* card.get("id", card.get("_id", f"card_{len(ids)}")) for the card at place
\* i of a list (lines 418, 485): the card's id, or card_<i-1>.
ListedId(card, i) ==
    IF card.id # None THEN <<"id", card.id[1]>> ELSE <<"card", i - 1>>

\* card.get("id", card.get("_id", "")) (line 463): the key a card is looked
\* up by in already_used_ids; the empty text for a card without id.
UsedKey(card) ==
    IF card.id # None THEN <<"id", card.id[1]>> ELSE <<"">>

\* select_global_top100 (lines 387-432).
select_global_top100(all_cards) ==
    LET scored == [i \in 1..Len(all_cards) |->
                      <<score_rulecard_global(all_cards[i]), all_cards[i]>>]
        top100 == CardsOf(ByScoreDesc(scored), top_limit)
    IN  [ original_pool_count |-> Len(all_cards),
          top100_count |-> Len(top100),
          top100_cards |-> top100,
          top100_card_ids |-> [i \in 1..Len(top100) |-> ListedId(top100[i], i)] ]

\* allocate_rulecards_to_section (lines 448-506); `cards` are the cards the
\* context text is written from.
allocate_rulecards_to_section(top100_cards, section_id, max_cards, already_used_ids) ==
    LET unused == SelectSeq(top100_cards, LAMBDA c : UsedKey(c) \notin already_used_ids)
        scored == [i \in 1..Len(unused) |->
                      <<SectionScore(unused[i], section_id), unused[i]>>]
        allocated == CardsOf(ByScoreDesc(scored), max_cards)
        ids == [i \in 1..Len(allocated) |-> ListedId(allocated[i], i)]
    IN  [ section_id |-> section_id,
          allocated_count |-> Len(ids),
          allocated_card_ids |-> ids,
          cards |-> allocated ]

\* The loop of build_premium_report over the sections (lines 674-690): the
\* allocations of the sections `sids`, the ids in `used` being taken.
RECURSIVE AllocateSections(_, _, _)
AllocateSections(top100_cards, sids, used_card_ids) ==
    IF sids = <<>> THEN <<>>
    ELSE LET sid == Head(sids)
             a == allocate_rulecards_to_section(top100_cards, sid, MaxCards[sid],
                                                used_card_ids)
         IN  <<a>> \o AllocateSections(
                          top100_cards, Tail(sids),
                          used_card_ids
                              \cup {a.allocated_card_ids[i] : i \in 1..a.allocated_count})

-----------------------------------------------------------------------------
(* PremiumReportBuilder (report_builder.py): the shared premium_report_builder
   and the calls of build_premium_report and regenerate_single_section that
   run on it in one event loop *)

\* The calls in flight on the shared builder.
Builds == {"x", "y"}

\* max_retries=3 (line 841).
max_retries == 3

\* What one chat.completions.create call comes to: a text json.loads
\* parses, an empty text, a text json.loads rejects, or an exception.
Answers ==
    { "json", "empty", "badjson", "RateLimitError", "APIError",
      "APIConnectionError", "APITimeoutError", "RuntimeError" }

\* The exception an answer ends in inside the try block (lines 606-611).
ErrorOf(answer) ==
    CASE answer = "empty" -> "ValueError"
      [] answer = "badjson" -> "JSONDecodeError"
      [] OTHER -> answer

\* A faulty variant of Retryable where the empty response is retried too.
RetryableWithEmpty ==
    { "RateLimitError", "APIError", "APIConnectionError", "APITimeoutError",
      "JSONDecodeError", "ValueError" }

\* The exceptions of the three retrying except clauses (lines 613-634).
Retryable ==
    { "RateLimitError", "APIError", "APIConnectionError", "APITimeoutError",
      "JSONDecodeError" }

\* A section task before it runs: the semaphore it entered (the call that
\* created it), the loop variable attempt, the API calls and the backoff
\* sleeps it made, last_error, and the exception it raised.
NewTask ==
    [ state |-> "created", sem |-> None, attempt |-> 0, calls |-> 0,
      sleeps |-> 0, last_error |-> None, error |-> None ]

\* One turn of the loop of _call_with_retry (lines 594-640) for the task t
\* whose API call comes to `answer`.
_call_with_retry(t, answer) ==
    LET called == [t EXCEPT !.calls = @ + 1]
    IN  IF answer = "json"
        THEN [called EXCEPT !.state = "returned"]
        ELSE LET e == ErrorOf(answer)
                 failed == [called EXCEPT !.last_error = Some(e)]
             IN  IF e \in Retryable
                 THEN IF t.attempt < max_retries - 1
                      THEN [failed EXCEPT !.state = "sleeping", !.sleeps = @ + 1]
                      ELSE [failed EXCEPT !.state = "raised", !.error = Some(e)]
                 ELSE [failed EXCEPT !.state = "raised", !.error = Some(e)]

\* asyncio.Semaphore(1): who is inside, and who waits, in order.
FreeSemaphore == [holder |-> None, waiters |-> <<>>]

\* release(): the first waiter, if any, goes in.
Release(s) ==
    IF s.waiters = <<>> THEN [s EXCEPT !.holder = None]
    ELSE [holder |-> Some(Head(s.waiters)), waiters |-> Tail(s.waiters)]

SectionIndex(sid) == CHOOSE i \in 1..Len(SectionIds) : SectionIds[i] = sid

TaskEnded(t) == t.state \in {"returned", "raised"}

\* build_premium_report up to asyncio.gather (lines 642-704): a new
\* semaphore on the shared builder, the Top-100, the allocations, and one
\* task per section.
BuildPremiumReport(b) ==
    /\ bpc[b] = "called"
    /\ bcall[b].kind = "build"
    /\ _semaphore' = Some(b)
    /\ sem' = [sem EXCEPT ![b] = FreeSemaphore]
    /\ alloc' = [alloc EXCEPT ![b] =
           AllocateSections(select_global_top100(bcall[b].rulecards).top100_cards,
                            SectionIds, {})]
    /\ task' = [task EXCEPT ![b] = [sid \in Sections |-> NewTask]]
    /\ bpc' = [bpc EXCEPT ![b] = "gathering"]
    /\ UNCHANGED <<bcall, engineVars, recoveryVars, jobVars>>

\* regenerate_single_section up to the API call of its section (lines
\* 849-889 and 820-841): ValueError for an unknown section; else a new
\* semaphore on the shared builder, which the call enters at once.
RegenerateSingleSection(b) ==
    /\ bpc[b] = "called"
    /\ bcall[b].kind = "regen"
    /\ LET sid == bcall[b].section_id
       IN  IF sid \notin Sections
           THEN /\ bpc' = [bpc EXCEPT ![b] = "raised"]
                /\ UNCHANGED <<_semaphore, sem, alloc, task>>
           ELSE /\ _semaphore' = Some(b)
                /\ sem' = [sem EXCEPT ![b] =
                       [holder |-> Some(<<b, sid>>), waiters |-> <<>>]]
                /\ alloc' = [alloc EXCEPT ![b] =
                       << allocate_rulecards_to_section(
                              select_global_top100(bcall[b].rulecards).top100_cards,
                              sid, MaxCards[sid], {}) >>]
                /\ task' = [task EXCEPT ![b] =
                       [k \in {sid} |->
                           [NewTask EXCEPT !.state = "calling", !.sem = Some(b)]]]
                /\ bpc' = [bpc EXCEPT ![b] = "awaiting"]
    /\ UNCHANGED <<bcall, engineVars, recoveryVars, jobVars>>

\* A task of gather begins _generate_section (line 820): it enters the
\* semaphore the builder holds now, or waits for it. The tasks of a call
\* begin in the order of the section list.
TaskStart(b, sid) ==
    /\ bpc[b] = "gathering"
    /\ task[b][sid].state = "created"
    /\ \A k \in Sections :
           SectionIndex(k) < SectionIndex(sid) => task[b][k].state # "created"
    /\ LET s == _semaphore[1]
           free == sem[s].holder = None
       IN  /\ sem' = [sem EXCEPT ![s] =
                  IF free THEN [@ EXCEPT !.holder = Some(<<b, sid>>)]
                  ELSE [@ EXCEPT !.waiters = Append(@, <<b, sid>>)]]
           /\ task' = [task EXCEPT ![b][sid] =
                  [@ EXCEPT !.state = IF free THEN "calling" ELSE "waiting",
                            !.sem = Some(s)]]
    /\ UNCHANGED <<_semaphore, bcall, bpc, alloc, engineVars, recoveryVars, jobVars>>

\* One API call of a task and what _call_with_retry does with its answer;
\* a task that returns or raises leaves the semaphore (lines 820-847).
Attempt(b, sid) ==
    /\ bpc[b] \in {"gathering", "awaiting"}
    /\ sid \in DOMAIN task[b]
    /\ task[b][sid].state = "calling"
    /\ LET t == task[b][sid]
           after == _call_with_retry(t, bcall[b].script[t.attempt + 1])
           s == t.sem[1]
           woken == IF TaskEnded(after) /\ sem[s].waiters # <<>>
                    THEN Some(Head(sem[s].waiters)) ELSE None
       IN  /\ task' =
                  [bb \in Builds |->
                      IF bb # b /\ (woken = None \/ woken[1][1] # bb)
                      THEN task[bb]
                      ELSE [k \in DOMAIN task[bb] |->
                               IF bb = b /\ k = sid THEN after
                               ELSE IF woken = Some(<<bb, k>>)
                                    THEN [task[bb][k] EXCEPT !.state = "calling"]
                                    ELSE task[bb][k]]]
           /\ sem' = IF TaskEnded(after) THEN [sem EXCEPT ![s] = Release(@)] ELSE sem
    /\ UNCHANGED <<_semaphore, bcall, bpc, alloc, engineVars, recoveryVars, jobVars>>

\* asyncio.sleep(delay) is over: the next turn of the loop (lines 594, 619).
Wake(b, sid) ==
    /\ bpc[b] \in {"gathering", "awaiting"}
    /\ sid \in DOMAIN task[b]
    /\ task[b][sid].state = "sleeping"
    /\ task' = [task EXCEPT ![b][sid] =
           [@ EXCEPT !.state = "calling", !.attempt = @ + 1]]
    /\ UNCHANGED <<_semaphore, sem, bcall, bpc, alloc, engineVars, recoveryVars, jobVars>>

\* gather has every result, or the awaited section is over: the call
\* returns its report (lines 704-803, 889-941).
Finish(b) ==
    /\ bpc[b] \in {"gathering", "awaiting"}
    /\ \A k \in DOMAIN task[b] : TaskEnded(task[b][k])
    /\ bpc' = [bpc EXCEPT ![b] = "done"]
    /\ UNCHANGED <<_semaphore, sem, bcall, alloc, task, engineVars, recoveryVars, jobVars>>

NextBuilder ==
    \E b \in Builds :
        \/ BuildPremiumReport(b)
        \/ RegenerateSingleSection(b)
        \/ Finish(b)
        \/ \E sid \in Sections :
               \/ TaskStart(b, sid)
               \/ Attempt(b, sid)
               \/ Wake(b, sid)

\* The answers of the API calls of one call's sections, by attempt.
AllOk == [i \in 1..max_retries |-> "json"]
RateThenOk == [i \in 1..max_retries |-> IF i = 1 THEN "RateLimitError" ELSE "json"]
Scripts == [1..max_retries -> Answers]

BuildCall(rulecards, script) ==
    [kind |-> "build", section_id |-> "", rulecards |-> rulecards, script |-> script]

RegenCall(section_id, rulecards, script) ==
    [kind |-> "regen", section_id |-> section_id, rulecards |-> rulecards,
     script |-> script]

\* A pool of n rule cards: every card with its own id, every two cards
\* with one id, or no card with an id; scores and section tags vary with
\* the place in the pool.
PoolOf(n, ids) ==
    [i \in 1..n |->
        Card(CASE ids = "unique" -> Some(i)
               [] ids = "paired" -> Some((i + 1) \div 2)
               [] OTHER -> None,
             i, i % 3,
             IF i % 2 = 0 THEN {SectionIds[(i % Len(SectionIds)) + 1]} ELSE {})]

PoolSizes == {0, 99, 100, 120}
PoolIds == {"unique", "paired", "missing"}

\* Two calls at once, each a report or one section, on small pools.
ConcurrentBuilds ==
    { [b \in Builds |-> IF b = "x" THEN cx ELSE cy] :
        cx \in {BuildCall(PoolOf(3, "unique"), AllOk),
                RegenCall("money", PoolOf(3, "unique"), RateThenOk)},
        cy \in {BuildCall(PoolOf(3, "unique"), AllOk),
                RegenCall("exec", PoolOf(3, "unique"), AllOk)} }

\* One report over each pool.
AllocationBuilds ==
    { [b \in Builds |-> IF b = "x" THEN BuildCall(PoolOf(n, ids), AllOk) ELSE None] :
        n \in PoolSizes, ids \in PoolIds }

\* One section under every run of answers, and one unknown section.
RetryCalls ==
    { [b \in Builds |-> IF b = "x" THEN RegenCall("exec", PoolOf(3, "unique"), sc)
                        ELSE None] : sc \in Scripts }
    \cup { [b \in Builds |-> IF b = "x" THEN RegenCall("bogus", <<>>, AllOk) ELSE None] }

InitBuilder ==
    /\ EngineIdle
    /\ RecoveryIdle
    /\ JobsIdle
    /\ bcall \in ConcurrentBuilds \cup AllocationBuilds \cup RetryCalls
    /\ bpc = [b \in Builds |-> IF bcall[b] = None THEN "idle" ELSE "called"]
    /\ _semaphore = None
    /\ sem = [b \in Builds |-> FreeSemaphore]
    /\ alloc = [b \in Builds |-> <<>>]
    /\ task = [b \in Builds |-> <<>>]

SpecBuilder == InitBuilder /\ [][NextBuilder]_vars

-----------------------------------------------------------------------------
(* Claims about the report builder *)

\* The tasks that exist, as <<call, section>>.
Tasks == {bs \in Builds \X Sections : bs[2] \in DOMAIN task[bs[1]]}

\* The tasks inside the body of _generate_section: generating a section.
InProgress == {bs \in Tasks : task[bs[1]][bs[2]].state \in {"calling", "sleeping"}}

\* C25: at no time are two section generations in progress on the shared
\* builder, under every interleaving of calls, concurrent ones included.
C25_AsStated == Cardinality(InProgress) <= 1

\* The place of the first answer of a script that does not lead to another
\* attempt, or max_retries when every answer does.
RECURSIVE LastAttempt(_, _)
LastAttempt(script, i) ==
    IF i = max_retries \/ script[i] \notin
           {"RateLimitError", "APIError", "APIConnectionError", "APITimeoutError",
            "badjson"}
    THEN i ELSE LastAttempt(script, i + 1)

\* C26: a finished call made at most max_retries attempts; it stopped at the
\* first answer that is parseable non-empty JSON and returned it; after a
\* retryable error on an attempt before the last it slept, once per such
\* attempt and never after the last; when every attempt failed with a
\* retryable error it raised the last of them; any other exception,
\* the ValueError of an empty response included, ended it at that attempt.
C26_CallWithRetry ==
    \A bs \in Tasks :
        LET t == task[bs[1]][bs[2]]
            script == bcall[bs[1]].script
            n == LastAttempt(script, 1)
        IN  /\ t.calls <= max_retries
            /\ t.sleeps <= max_retries - 1
            /\ TaskEnded(t) =>
                   /\ t.calls = n
                   /\ t.sleeps = n - 1
                   /\ (t.state = "returned") = (script[n] = "json")
                   /\ t.state = "raised" =>
                          t.error = Some(CASE script[n] = "empty" -> "ValueError"
                                           [] script[n] = "badjson" -> "JSONDecodeError"
                                           [] OTHER -> script[n])

\* A call that met a rate limit, then an unparseable text, then got JSON:
\* it returned at the third attempt after two sleeps.
C26_Witness ==
    /\ bcall["x"].kind = "regen"
    /\ bcall["x"].script = <<"RateLimitError", "badjson", "json">>
    /\ "exec" \in DOMAIN task["x"]
    /\ task["x"]["exec"].state = "returned"
    /\ task["x"]["exec"].calls = 3
    /\ task["x"]["exec"].sleeps = 2

\* The cards of the allocation at place i of a finished allocation.
AllocatedCards(a) == {a.cards[i] : i \in 1..Len(a.cards)}

\* C27: the allocations of a report share no card, each holds at most
\* max_cards cards, and with a pool of 100 cards or more they hold exactly
\* 100 cards together.
C27_AsStated ==
    \A b \in Builds :
        (bcall[b] # None /\ bcall[b].kind = "build" /\ bpc[b] # "called") =>
            LET as == alloc[b]
                total == Cardinality({<<i, j>> \in (1..Len(as)) \X (1..top_limit) :
                                         j <= as[i].allocated_count})
            IN  /\ \A i, j \in 1..Len(as) :
                       i # j => AllocatedCards(as[i]) \cap AllocatedCards(as[j]) = {}
                /\ \A i \in 1..Len(as) :
                       as[i].allocated_count <= MaxCards[as[i].section_id]
                /\ Len(bcall[b].rulecards) >= top_limit => total = top_limit

=============================================================================
